---- MODULE Spec2Model ----
(***************************************************************************)
(* The analysis pipeline of AILocalFileManager:                            *)
(*   RealtimeAnalyzer.analyze_with_ai   (backend/app/api/analysis.py)      *)
(*   AIEngine.suggest_organization      (backend/app/services/ai_engine.py)*)
(*   FileAnalyzer.analyze_file          (backend/app/services/analyzer.py) *)
(*                                                                         *)
(* Python strings are sequences of one-character strings, so that lower(), *)
(* strip(), `in` and count() are computed and not assumed.  A confidence   *)
(* is a number of hundredths (0.3 is 30).  A model reply is a sequence of  *)
(* tokens: braces, prose, whitespace and the members of a JSON object.     *)
(***************************************************************************)
EXTENDS Integers, Sequences, FiniteSets, TLC

\* Most directory entries under the scanned root.
MaxFiles == 3

\* stop_after_attempt(3) of the retry decorator of _query_ollama.
MaxAttempts == 3

\* len(category_lower) < 30 and category_lower.count(' ') < 3.
PassThroughMaxLen == 30
PassThroughMaxSpaces == 3

\* Most pieces an input of _normalize_category is made of.
MaxPieces == 4

\* 0.3 and 0.5, in hundredths.
DefaultConfidence == 30
MissingConfidence == 50

----------------------------------------------------------------------------
(* Python str methods.                                                     *)

UpperCase == <<"A","B","C","D","E","F","G","H","I","J","K","L","M",
               "N","O","P","Q","R","S","T","U","V","W","X","Y","Z">>
LowerCase == <<"a","b","c","d","e","f","g","h","i","j","k","l","m",
               "n","o","p","q","r","s","t","u","v","w","x","y","z">>
Digits == <<"0","1","2","3","4","5","6","7","8","9">>
Whitespace == {" ", "\t", "\n"}

SetMin(S) == CHOOSE x \in S : \A y \in S : x <= y
SetMax(S) == CHOOSE x \in S : \A y \in S : y <= x

\* The element of a set of one element.  An operator whose argument is
\* used many times takes it once as the element of {argument}.
Only(S) == CHOOSE x \in S : TRUE

char_lower(c) ==
  IF \E i \in 1..Len(UpperCase) : UpperCase[i] = c
  THEN LowerCase[CHOOSE i \in 1..Len(UpperCase) : UpperCase[i] = c]
  ELSE c

str_lower(s) == Only({[i \in 1..Len(t) |-> char_lower(t[i])] : t \in {s}})

str_strip(s) ==
  Only({ IF keep = {} THEN << >> ELSE SubSeq(t, SetMin(keep), SetMax(keep)) :
         <<t, keep>> \in {<<u, {i \in 1..Len(u) : u[i] \notin Whitespace}>> : u \in {s}} })

\* word in s
str_contains(s, word) ==
  \E t \in {s}, w \in {word} :
     \E i \in 0..(Len(t) - Len(w)) : \A k \in 1..Len(w) : t[i + k] = w[k]

str_count(s, c) == Only({Cardinality({i \in 1..Len(t) : t[i] = c}) : t \in {s}})

str_startswith(s, c) == Len(s) > 0 /\ s[1] = c

\* PurePath.suffix: the text from the last dot of the name, unless that dot
\* is the first or the last character.
path_suffix(name) ==
  Only({ IF dots = {} THEN << >>
         ELSE LET j == SetMax(dots)
              IN IF 1 < j /\ j < Len(n) THEN SubSeq(n, j, Len(n)) ELSE << >> :
         <<n, dots>> \in {<<u, {i \in 1..Len(u) : u[i] = "."}>> : u \in {name}} })

----------------------------------------------------------------------------
(* JSON values, as json.loads gives them, and Python dicts.                *)

JStr(s) == [t |-> "str", s |-> s, n |-> 0, l |-> << >>]
JNum(n) == [t |-> "num", s |-> << >>, n |-> n, l |-> << >>]
JList(l) == [t |-> "list", s |-> << >>, n |-> 0, l |-> l]
JNull == [t |-> "null", s |-> << >>, n |-> 0, l |-> << >>]

\* bool(v)
truthy(v) ==
  CASE v.t = "str" -> v.s # << >>
    [] v.t = "num" -> v.n # 0
    [] v.t = "list" -> v.l # << >>
    [] OTHER -> FALSE

EmptyDict == << >>

\* d.get(key, default)
dict_get(d, key, default) == IF key \in DOMAIN d THEN d[key] ELSE default

\* float(v): a number is itself, a string of digits is that integer, every
\* other string drawn here (a word), None and a list raise.
float_raises(v) ==
  CASE v.t = "num" -> FALSE
    [] v.t = "str" ->
         ~(v.s # << >> /\ \A i \in 1..Len(v.s) : \E d \in 1..Len(Digits) : Digits[d] = v.s[i])
    [] OTHER -> TRUE

RECURSIVE digits_value(_)
digits_value(s) ==
  IF s = << >> THEN 0
  ELSE 10 * digits_value(SubSeq(s, 1, Len(s) - 1))
       + (CHOOSE d \in 1..Len(Digits) : Digits[d] = s[Len(s)]) - 1

float_value(v) == IF v.t = "num" THEN v.n ELSE 100 * digits_value(v.s)

----------------------------------------------------------------------------
(* RealtimeAnalyzer._normalize_category                                    *)

Other == <<"O","t","h","e","r">>

CategoryBuckets == <<
  [folder |-> <<"D","o","c","u","m","e","n","t","s">>,
   words |-> <<<<"d","o","c","u","m","e","n","t">>, <<"t","e","x","t">>, <<"w","o","r","d">>, <<"p","d","f">>, <<"s","h","e","e","t">>, <<"e","x","c","e","l">>,
               <<"s","p","r","e","a","d","s","h","e","e","t">>, <<"p","r","e","s","e","n","t","a","t","i","o","n">>>>],
  [folder |-> <<"I","m","a","g","e","s">>,
   words |-> <<<<"i","m","a","g","e">>, <<"p","h","o","t","o">>, <<"p","i","c","t","u","r","e">>, <<"p","h","o","t","o">>, <<"v","i","s","u","a","l">>, <<"g","r","a","p","h","i","c">>,
               <<"p","i","c","t","u","r","e">>>>],
  [folder |-> <<"V","i","d","e","o","s">>,
   words |-> <<<<"v","i","d","e","o">>, <<"m","o","v","i","e">>, <<"f","i","l","m">>, <<"m","p","4">>, <<"a","v","i">>, <<"m","k","v">>>>],
  [folder |-> <<"A","u","d","i","o">>,
   words |-> <<<<"a","u","d","i","o">>, <<"m","u","s","i","c">>, <<"s","o","u","n","d">>, <<"m","p","3">>, <<"w","a","v">>, <<"f","l","a","c">>>>],
  [folder |-> <<"C","o","d","e">>,
   words |-> <<<<"c","o","d","e">>, <<"s","c","r","i","p","t">>, <<"p","y","t","h","o","n">>, <<"j","a","v","a","s","c","r","i","p","t">>, <<"j","a","v","a">>, <<"c","p","p">>,
               <<"s","o","u","r","c","e">>, <<"d","e","v","e","l","o","p","m","e","n","t">>, <<"p","r","o","g","r","a","m","m","i","n","g">>, <<"s","o","f","t","w","a","r","e">>>>],
  [folder |-> <<"A","r","c","h","i","v","e","s">>,
   words |-> <<<<"a","r","c","h","i","v","e">>, <<"c","o","m","p","r","e","s","s","e","d">>, <<"z","i","p">>, <<"r","a","r">>, <<"7","z">>, <<"t","a","r">>,
               <<"b","a","c","k","u","p">>>>],
  [folder |-> <<"L","o","g","s"," ","&"," ","C","o","n","f","i","g","s">>,
   words |-> <<<<"l","o","g">>, <<"s","y","s","t","e","m">>, <<"c","o","n","f","i","g">>, <<"c","o","n","f","i","g","u","r","a","t","i","o","n">>, <<"s","e","t","t","i","n","g">>,
               <<"a","d","m","i","n">>, <<"a","d","m","i","n","i","s","t","r","a","t","i","o","n">>>>],
  [folder |-> <<"D","a","t","a">>,
   words |-> <<<<"d","a","t","a">>, <<"d","a","t","a","s","e","t">>, <<"d","a","t","a","b","a","s","e">>, <<"d","b">>, <<"s","q","l">>>>] >>

\* any(word in category_lower for word in words)
bucket_matches(b, category_lower) ==
  \E k \in 1..Len(CategoryBuckets[b].words) :
     str_contains(category_lower, CategoryBuckets[b].words[k])

\* _normalize_category comparing the length with <= in place of <.
_normalize_category_le(category) ==
  Only({ IF c = << >> THEN Other
         ELSE LET hits == {b \in 1..Len(CategoryBuckets) : bucket_matches(b, category_lower)}
              IN IF hits # {} THEN CategoryBuckets[SetMin(hits)].folder
                 ELSE IF Len(category_lower) <= PassThroughMaxLen
                         /\ str_count(category_lower, " ") < PassThroughMaxSpaces
                      THEN str_strip(c)
                      ELSE Other :
         <<c, category_lower>> \in {<<u, str_strip(str_lower(u))>> : u \in {category}} })

\* _normalize_category with the if chain in the opposite order.
_normalize_category_last(category) ==
  Only({ IF c = << >> THEN Other
         ELSE LET hits == {b \in 1..Len(CategoryBuckets) : bucket_matches(b, category_lower)}
              IN IF hits # {} THEN CategoryBuckets[SetMax(hits)].folder
                 ELSE IF Len(category_lower) < PassThroughMaxLen
                         /\ str_count(category_lower, " ") < PassThroughMaxSpaces
                      THEN str_strip(c)
                      ELSE Other :
         <<c, category_lower>> \in {<<u, str_strip(str_lower(u))>> : u \in {category}} })

_normalize_category(category) ==
  Only({ IF c = << >> THEN Other
         ELSE LET hits == {b \in 1..Len(CategoryBuckets) : bucket_matches(b, category_lower)}
              IN IF hits # {} THEN CategoryBuckets[SetMin(hits)].folder
                 ELSE IF Len(category_lower) < PassThroughMaxLen
                         /\ str_count(category_lower, " ") < PassThroughMaxSpaces
                      THEN str_strip(c)
                      ELSE Other :
         <<c, category_lower>> \in {<<u, str_strip(str_lower(u))>> : u \in {category}} })

----------------------------------------------------------------------------
(* RealtimeAnalyzer._get_file_type and FileAnalyzer._classify_content_type *)

type_map == <<
  [ftype |-> <<"i","m","a","g","e">>,
   exts |-> {<<".","j","p","g">>, <<".","j","p","e","g">>, <<".","p","n","g">>, <<".","g","i","f">>, <<".","b","m","p">>, <<".","s","v","g">>, <<".","w","e","b","p">>}],
  [ftype |-> <<"d","o","c","u","m","e","n","t">>,
   exts |-> {<<".","p","d","f">>, <<".","d","o","c">>, <<".","d","o","c","x">>, <<".","t","x","t">>, <<".","m","d">>, <<".","x","l","s","x">>, <<".","x","l","s">>,
             <<".","p","p","t","x">>, <<".","c","s","v">>}],
  [ftype |-> <<"v","i","d","e","o">>,
   exts |-> {<<".","m","p","4">>, <<".","a","v","i">>, <<".","m","k","v">>, <<".","m","o","v">>, <<".","f","l","v">>, <<".","w","m","v">>}],
  [ftype |-> <<"a","u","d","i","o">>,
   exts |-> {<<".","m","p","3">>, <<".","w","a","v">>, <<".","f","l","a","c">>, <<".","m","4","a">>, <<".","a","a","c">>}],
  [ftype |-> <<"a","r","c","h","i","v","e">>,
   exts |-> {<<".","z","i","p">>, <<".","r","a","r">>, <<".","7","z">>, <<".","t","a","r">>, <<".","g","z">>, <<".","b","z","2">>}],
  [ftype |-> <<"c","o","d","e">>,
   exts |-> {<<".","p","y">>, <<".","j","s">>, <<".","t","s">>, <<".","j","s","x">>, <<".","t","s","x">>, <<".","j","a","v","a">>, <<".","c","p","p">>, <<".","c">>,
             <<".","g","o">>, <<".","s","h">>, <<".","b","a","s","h">>}] >>

_get_file_type(name) ==
  Only({ LET hits == {k \in 1..Len(type_map) : ext \in type_map[k].exts}
         IN IF hits # {} THEN type_map[SetMin(hits)].ftype ELSE <<"o","t","h","e","r">> :
         ext \in {str_lower(path_suffix(name))} })

_classify_content_type(file_ext, mime_type) ==
  LET ext == str_lower(file_ext)
  IN CASE ext \in {<<".","t","x","t">>, <<".","m","d">>, <<".","c","s","v">>, <<".","j","s","o","n">>, <<".","x","m","l">>, <<".","y","a","m","l">>} -> <<"t","e","x","t">>
       [] ext \in {<<".","p","d","f">>, <<".","d","o","c","x">>, <<".","d","o","c">>, <<".","x","l","s","x">>, <<".","p","p","t","x">>} -> <<"d","o","c","u","m","e","n","t">>
       [] ext \in {<<".","j","p","g">>, <<".","j","p","e","g">>, <<".","p","n","g">>, <<".","g","i","f">>, <<".","b","m","p">>, <<".","s","v","g">>, <<".","w","e","b","p">>} -> <<"i","m","a","g","e">>
       [] ext \in {<<".","m","p","4">>, <<".","a","v","i">>, <<".","m","k","v">>, <<".","m","o","v">>, <<".","w","e","b","m">>} -> <<"m","e","d","i","a">>
       [] ext \in {<<".","m","p","3">>, <<".","w","a","v">>, <<".","f","l","a","c">>, <<".","a","a","c">>, <<".","m","4","a">>} -> <<"m","e","d","i","a">>
       [] ext \in {<<".","z","i","p">>, <<".","r","a","r">>, <<".","7","z">>, <<".","t","a","r">>, <<".","g","z">>} -> <<"a","r","c","h","i","v","e">>
       [] ext \in {<<".","p","y">>, <<".","j","s">>, <<".","t","s">>, <<".","j","a","v","a">>, <<".","c","p","p">>, <<".","c">>, <<".","g","o">>, <<".","r","s">>} -> <<"c","o","d","e">>
       [] OTHER ->
            IF str_contains(mime_type, <<"t","e","x","t">>) THEN <<"t","e","x","t">>
            ELSE IF str_contains(mime_type, <<"i","m","a","g","e">>) THEN <<"i","m","a","g","e">>
            ELSE IF str_contains(mime_type, <<"v","i","d","e","o">>) \/ str_contains(mime_type, <<"a","u","d","i","o">>)
                 THEN <<"m","e","d","i","a">>
                 ELSE <<"u","n","k","n","o","w","n">>

----------------------------------------------------------------------------
(* AIEngine._default_suggestion and AIEngine._parse_json_response          *)

DefaultReasoning == <<"D","e","f","a","u","l","t"," ","s","u","g","g","e","s","t","i","o","n"," ","(","A","I"," ","u","n","a","v","a","i","l","a","b","l","e",")">>

\* category_map without its "media" entry.
category_map_no_media(file_type) ==
  CASE file_type = <<"i","m","a","g","e">> -> <<"I","m","a","g","e","s">>
    [] file_type = <<"d","o","c","u","m","e","n","t">> -> <<"D","o","c","u","m","e","n","t","s">>
    [] file_type = <<"a","r","c","h","i","v","e">> -> <<"A","r","c","h","i","v","e","s">>
    [] file_type = <<"c","o","d","e">> -> <<"C","o","d","e">>
    [] file_type = <<"t","e","x","t">> -> <<"D","o","c","u","m","e","n","t","s">>
    [] OTHER -> <<"M","i","s","c">>

category_map(file_type) ==
  CASE file_type = <<"i","m","a","g","e">> -> <<"I","m","a","g","e","s">>
    [] file_type = <<"d","o","c","u","m","e","n","t">> -> <<"D","o","c","u","m","e","n","t","s">>
    [] file_type = <<"m","e","d","i","a">> -> <<"M","e","d","i","a">>
    [] file_type = <<"a","r","c","h","i","v","e">> -> <<"A","r","c","h","i","v","e","s">>
    [] file_type = <<"c","o","d","e">> -> <<"C","o","d","e">>
    [] file_type = <<"t","e","x","t">> -> <<"D","o","c","u","m","e","n","t","s">>
    [] OTHER -> <<"M","i","s","c">>

\* _default_suggestion with the confidence of a missing 'confidence' key.
_default_suggestion_half(filename, file_type) ==
  [suggested_name |-> JStr(filename),
   suggested_category |-> JStr(category_map(file_type)),
   suggested_tags |-> JList(<<file_type>>),
   confidence |-> JNum(MissingConfidence),
   reasoning |-> JStr(DefaultReasoning)]

_default_suggestion(filename, file_type) ==
  [suggested_name |-> JStr(filename),
   suggested_category |-> JStr(category_map(file_type)),
   suggested_tags |-> JList(<<file_type>>),
   confidence |-> JNum(DefaultConfidence),
   reasoning |-> JStr(DefaultReasoning)]

\* A token of the text the model generated.
LBrace == [tok |-> "{", key |-> "", val |-> JNull]
RBrace == [tok |-> "}", key |-> "", val |-> JNull]
Prose == [tok |-> "prose", key |-> "", val |-> JNull]
Space == [tok |-> "space", key |-> "", val |-> JNull]
Member(key, val) == [tok |-> "member", key |-> key, val |-> val]

\* str.find and str.rfind of one token, 0-based, -1 when absent.
text_find(text, tok) ==
  LET at == {i \in 1..Len(text) : text[i].tok = tok}
  IN IF at = {} THEN -1 ELSE SetMin(at) - 1

text_rfind(text, tok) ==
  LET at == {i \in 1..Len(text) : text[i].tok = tok}
  IN IF at = {} THEN -1 ELSE SetMax(at) - 1

\* str.strip of the generated text.
text_strip(text) ==
  LET keep == {i \in 1..Len(text) : text[i].tok # "space"}
  IN IF keep = {} THEN << >> ELSE SubSeq(text, SetMin(keep), SetMax(keep))

\* json.loads of a span that starts with "{": it decodes when the span is
\* one object, an opening brace, members and the closing brace (JSON
\* whitespace aside); of two members with one key the later one stays.
json_loads(span) ==
  LET body == SelectSeq(span, LAMBDA x : x.tok # "space")
      n == Len(body)
      ok == /\ n >= 2
            /\ body[1].tok = "{"
            /\ body[n].tok = "}"
            /\ \A i \in 2..(n - 1) : body[i].tok = "member"
      keys == {body[i].key : i \in 2..(n - 1)}
  IN [ok |-> ok,
      val |-> IF ok
              THEN [k \in keys |->
                      body[SetMax({i \in 2..(n - 1) : body[i].key = k})].val]
              ELSE EmptyDict]

None == [some |-> FALSE, val |-> EmptyDict]

_parse_json_response(response) ==
  LET start == text_find(response, "{")
      end == text_rfind(response, "}") + 1
  IN IF start >= 0 /\ end > start
     THEN LET decoded == json_loads(SubSeq(response, start + 1, end))
          IN IF decoded.ok THEN [some |-> TRUE, val |-> decoded.val] ELSE None
     ELSE None

----------------------------------------------------------------------------
(* The replies of the inference backend to one HTTP attempt.               *)

text_good ==
  <<Prose, Space, LBrace,
    Member("suggested_name", JStr(<<"c","a","t","_","2","0","2","4",".","j","p","g">>)),
    Member("suggested_category", JStr(<<"P","h","o","t","o"," ","o","f"," ","c","a","t">>)),
    Member("suggested_tags", JList(<<<<"c","a","t">>>>)),
    Member("confidence", JNum(95)),
    Member("reasoning", JStr(<<"A"," ","c","a","t"," ","p","h","o","t","o">>)),
    RBrace, Space, Prose>>

text_partial == <<LBrace, Member("reasoning", JStr(<<"L","o","o","k","s"," ","f","i","n","e">>)), RBrace>>

text_confidence_word ==
  <<LBrace, Member("suggested_category", JStr(<<"R","e","p","o","r","t","s">>)),
    Member("confidence", JStr(<<"h","i","g","h">>)), RBrace>>

text_category_number ==
  <<LBrace, Member("suggested_category", JNum(5)), Member("confidence", JNum(90)), RBrace>>

text_confidence_big ==
  <<LBrace, Member("suggested_category", JStr(<<"I","n","v","o","i","c","e","s">>)),
    Member("confidence", JNum(150)), RBrace>>

text_category_blank ==
  <<LBrace, Member("suggested_category", JStr(<<" ">>)),
    Member("confidence", JNum(80)), RBrace>>

text_prose == <<Space, Prose, Space>>
text_missing == << >>
text_malformed == <<Prose, LBrace, Prose, RBrace>>
text_empty_object == <<LBrace, RBrace>>
text_two_objects ==
  <<LBrace, Member("confidence", JNum(80)), RBrace, Space,
    LBrace, Member("confidence", JNum(70)), RBrace>>

Texts == {text_good, text_partial, text_confidence_word, text_category_number,
          text_confidence_big, text_category_blank,
          text_prose, text_missing, text_malformed, text_empty_object, text_two_objects}

\* What makes an attempt raise: the request times out, the connection
\* fails, the status is not 200, or the body of a 200 reply is not JSON.
FailureKinds == {"timeout", "connect_error", "status", "bad_body"}

Replies == {[kind |-> k, text |-> << >>] : k \in FailureKinds}
           \cup {[kind |-> "ok", text |-> t] : t \in Texts}

----------------------------------------------------------------------------
(* The scanned directory.  A path is its rank in lexicographic order.      *)

FileTable == <<<<".","e","n","v">>, <<"a",".","m","p","4">>, <<"b",".","j","p","g">>, <<"c",".","z","i","p">>>>
Paths == 1..Len(FileTable)
path_name(p) == FileTable[p]

RECURSIVE sorted(_)
sorted(S) == IF S = {} THEN << >> ELSE <<SetMin(S)>> \o sorted(S \ {SetMin(S)})

\* _get_files without the final sorted(): the order the walk found them in.
_get_files_unsorted(root, entries) ==
  IF root = "missing" THEN << >>
  ELSE LET found == {p \in entries : ~str_startswith(path_name(p), ".")}
           ascending == sorted(found)
       IN [i \in 1..Len(ascending) |-> ascending[Len(ascending) + 1 - i]]

\* _get_files of a root that exists: the entries whose name does not start
\* with a dot, sorted.  A root that does not exist gives the empty list.
_get_files(root, entries) ==
  IF root = "missing" THEN << >>
  ELSE sorted({p \in entries : ~str_startswith(path_name(p), ".")})

\* The files FileAnalyzer.analyze_file is called on: name and libmagic type.
AnalyzeInputs == {
  [name |-> <<"n","o","t","e","s",".","m","d">>, mime |-> <<"t","e","x","t","/","p","l","a","i","n">>],
  [name |-> <<"r","e","p","o","r","t",".","p","d","f">>, mime |-> <<"a","p","p","l","i","c","a","t","i","o","n","/","p","d","f">>],
  [name |-> <<"b",".","j","p","g">>, mime |-> <<"i","m","a","g","e","/","j","p","e","g">>],
  [name |-> <<"c","l","i","p",".","m","p","4">>, mime |-> <<"v","i","d","e","o","/","m","p","4">>],
  [name |-> <<"c",".","z","i","p">>, mime |-> <<"a","p","p","l","i","c","a","t","i","o","n","/","z","i","p">>],
  [name |-> <<"m","a","i","n",".","p","y">>, mime |-> <<"t","e","x","t","/","x","-","p","y","t","h","o","n">>],
  [name |-> <<"a","p","p",".","l","o","g">>, mime |-> <<"t","e","x","t","/","p","l","a","i","n">>],
  [name |-> <<"b","l","o","b",".","b","i","n">>, mime |-> <<"a","p","p","l","i","c","a","t","i","o","n","/","o","c","t","e","t","-","s","t","r","e","a","m">>] }

----------------------------------------------------------------------------
(* State.                                                                  *)

VARIABLES
  backend,       \* the inference backend during the run: "up" or "down"
  root,          \* what stat of the root path gives: "dir", "missing", "error"
  fs,            \* the entries of the root directory
  pc,            \* "idle", "loop", "query", "returned", "done"
  caller,        \* who called suggest_organization: "pipeline", "analyze_file"
  files,         \* analyze_with_ai: files
  idx,           \* analyze_with_ai: idx
  all_files,     \* analyze_with_ai: all_files
  events,        \* the events analyze_with_ai has yielded
  error_log,     \* the paths of logger.error("Error analyzing ...")
  filename,      \* suggest_organization: filename
  file_type,     \* suggest_organization: file_type
  attempt_log,   \* the replies to the HTTP attempts of the running query
  suggestion,    \* what suggest_organization returned
  analysis,      \* what analyze_file returned
  norm_pc,       \* a call of _normalize_category: "idle", "done"
  norm_input,    \* _normalize_category: category
  norm_output,   \* what _normalize_category returned
  mv_pc,         \* move_files: "idle", "loop", "moving", "responded"
  disk,          \* the filesystem: path -> what is there
  disk0,         \* the filesystem when the batch arrived
  request,       \* move_files: request
  file_i,        \* move_files: position of file_info in files, from 1
  mv_results,    \* move_files: results
  dest_path,     \* move_files: dest_path
  mv_response,   \* what move_files answered
  rival_pc,      \* move_files in a second server process: "idle", "loop", "moving", "responded"
  rival_request, \* second process: request
  rival_i,       \* second process: position of file_info in files
  rival_results, \* second process: results
  rival_dest,    \* second process: dest_path
  walk_pc,       \* a call of _get_files: "idle", "returned", "raised"
  walk_root,     \* what the stat of path gives: "ok" or the error
  walk_recursive,\* _get_files: recursive
  walk_tree,     \* the entries under path
  walk_bad,      \* the entries whose stat raises
  walk_files,    \* what _get_files returned
  hc_pc,         \* a call of health_check: "idle", "pulling", "pulled", "returned"
  hc_endpoint,   \* what GET /api/tags gives
  hc_registry,   \* the names of the models the backend holds
  hc_model,      \* self.model
  hc_result      \* what health_check returned

norm_vars == <<norm_pc, norm_input, norm_output>>

health_vars == <<hc_pc, hc_endpoint, hc_registry, hc_model, hc_result>>

health_idle ==
  /\ hc_pc = "idle"
  /\ hc_endpoint = "ok"
  /\ hc_registry = {}
  /\ hc_model = << >>
  /\ hc_result = FALSE

walk_vars == <<walk_pc, walk_root, walk_recursive, walk_tree, walk_bad, walk_files>>

walk_idle ==
  /\ walk_pc = "idle"
  /\ walk_root = "ok"
  /\ walk_recursive = TRUE
  /\ walk_tree = {}
  /\ walk_bad = {}
  /\ walk_files = << >>

rival_vars == <<rival_pc, rival_request, rival_i, rival_results, rival_dest>>

move_vars == <<mv_pc, disk, disk0, request, file_i, mv_results, dest_path, mv_response,
               rival_vars>>

NoDisk == << >>
NoResponse == [status |-> 0, body |-> EmptyDict]

rival_idle ==
  /\ rival_pc = "idle"
  /\ rival_request = EmptyDict
  /\ rival_i = 0
  /\ rival_results = << >>
  /\ rival_dest = << >>

move_idle ==
  /\ mv_pc = "idle"
  /\ disk = NoDisk
  /\ disk0 = NoDisk
  /\ request = EmptyDict
  /\ file_i = 0
  /\ mv_results = << >>
  /\ dest_path = << >>
  /\ mv_response = NoResponse
  /\ rival_idle

vars == <<backend, root, fs, pc, caller, files, idx, all_files, events, error_log,
          filename, file_type, attempt_log, suggestion, analysis, norm_vars, move_vars,
          walk_vars, health_vars>>

pipeline_vars == <<files, idx, all_files, events, error_log>>
engine_vars == <<filename, file_type, attempt_log, suggestion>>

NoEvent == [type |-> "", total |-> 0, processed |-> 0, progress |-> 0,
            current_file |-> 0, category |-> << >>, files |-> << >>, error |-> ""]

started_data(total_files) ==
  [NoEvent EXCEPT !.type = "started", !.total = total_files]

\* progress_data counting from enumerate(files) without the start of 1.
progress_data_from_zero(i, total_files, file_path, category) ==
  [NoEvent EXCEPT !.type = "progress", !.processed = i - 1, !.total = total_files,
                  !.progress = (2000 * i + total_files) \div (2 * total_files),
                  !.current_file = file_path, !.category = category]

\* progress_data reporting the total as the number processed.
progress_data_total(i, total_files, file_path, category) ==
  [NoEvent EXCEPT !.type = "progress", !.processed = total_files, !.total = total_files,
                  !.progress = (2000 * i + total_files) \div (2 * total_files),
                  !.current_file = file_path, !.category = category]

\* round((idx / total_files) * 100, 1), in tenths of a percent.
progress_data(i, total_files, file_path, category) ==
  [NoEvent EXCEPT !.type = "progress", !.processed = i, !.total = total_files,
                  !.progress = (2000 * i + total_files) \div (2 * total_files),
                  !.current_file = file_path, !.category = category]

\* The last event of a run with the type of a progress event.
completed_data_as_progress(results, total_files) ==
  [NoEvent EXCEPT !.type = "progress", !.files = results, !.total = total_files]

completed_data(results, total_files) ==
  [NoEvent EXCEPT !.type = "completed", !.files = results, !.total = total_files]

error_data(message) == [NoEvent EXCEPT !.type = "error", !.error = message]

NoAnalysis == [made |-> FALSE, content_type |-> << >>, suggested_name |-> JNull,
               suggested_category |-> JNull, suggested_tags |-> JNull,
               confidence_score |-> JNull, reasoning |-> JNull]

Init ==
  /\ backend \in {"up", "down"}
  /\ root \in {"dir", "missing", "error"}
  /\ fs \in {S \in SUBSET Paths : Cardinality(S) <= MaxFiles /\ (root # "dir" => S = {})}
  /\ pc = "idle"
  /\ caller = "none"
  /\ files = << >>
  /\ idx = 0
  /\ all_files = << >>
  /\ events = << >>
  /\ error_log = << >>
  /\ filename = << >>
  /\ file_type = << >>
  /\ attempt_log = << >>
  /\ suggestion = EmptyDict
  /\ analysis = NoAnalysis
  /\ norm_pc = "idle"
  /\ norm_input = << >>
  /\ norm_output = << >>
  /\ move_idle
  /\ walk_idle
  /\ health_idle

----------------------------------------------------------------------------
(* AIEngine._query_ollama and AIEngine.suggest_organization                *)

\* parsed_suggestion returning whatever the parser gave.
parsed_suggestion_unchecked(name, ftype, response) ==
  _parse_json_response(response).val

\* suggest_organization once _query_ollama has returned `response`.
parsed_suggestion(name, ftype, response) ==
  LET parsed == _parse_json_response(response)
  IN IF parsed.some /\ parsed.val # EmptyDict
     THEN parsed.val
     ELSE _default_suggestion(name, ftype)

\* A backend that is down refuses the connection or lets it time out.
available_replies(state) ==
  IF state = "down" THEN {r \in Replies : r.kind \in {"connect_error", "timeout"}} ELSE Replies

\* The retry decorator after a failed attempt: stop_after_attempt(3).
retry_stops(attempt_number) == attempt_number >= MaxAttempts

\* One HTTP attempt.  A 200 reply with a JSON body ends the query and
\* suggest_organization returns; a failed attempt is retried, and after the
\* last one the decorator raises and suggest_organization returns the default.
query_ollama_attempt ==
  /\ pc = "query"
  /\ \E reply \in available_replies(backend) :
       /\ attempt_log' = Append(attempt_log, reply)
       /\ IF reply.kind = "ok"
          THEN /\ suggestion' = parsed_suggestion(filename, file_type, text_strip(reply.text))
               /\ pc' = "returned"
          ELSE IF retry_stops(Len(attempt_log) + 1)
               THEN /\ suggestion' = _default_suggestion(filename, file_type)
                    /\ pc' = "returned"
               ELSE /\ suggestion' = suggestion
                    /\ pc' = "query"
  /\ UNCHANGED <<norm_vars, move_vars, walk_vars, health_vars>>
  /\ UNCHANGED <<backend, root, fs, caller, pipeline_vars, filename, file_type, analysis>>

----------------------------------------------------------------------------
(* RealtimeAnalyzer.analyze_with_ai                                        *)

\* _get_files and the 'started' event; an OSError of the root's stat leaves
\* _get_files and is caught by the outer handler.
analyze_with_ai_start ==
  /\ pc = "idle"
  /\ caller' = "pipeline"
  /\ IF root = "error"
     THEN /\ events' = <<error_data("OSError")>>
          /\ pc' = "done"
          /\ UNCHANGED <<files, idx>>
     ELSE /\ files' = _get_files(root, fs)
          /\ events' = <<started_data(Len(_get_files(root, fs)))>>
          /\ idx' = 1
          /\ pc' = "loop"
  /\ UNCHANGED <<norm_vars, move_vars, walk_vars, health_vars>>
  /\ UNCHANGED <<backend, root, fs, all_files, error_log, engine_vars, analysis>>

\* The loop takes the next file and calls suggest_organization.
analyze_with_ai_call ==
  /\ pc = "loop"
  /\ idx <= Len(files)
  /\ filename' = path_name(files[idx])
  /\ file_type' = _get_file_type(path_name(files[idx]))
  /\ attempt_log' = << >>
  /\ pc' = "query"
  /\ UNCHANGED <<norm_vars, move_vars, walk_vars, health_vars>>
  /\ UNCHANGED <<backend, root, fs, caller, pipeline_vars, suggestion, analysis>>

\* ai_category or file_info['file_type']
category_source(sugg, ftype) ==
  LET ai_category == dict_get(sugg, "suggested_category", JStr(<< >>))
  IN IF truthy(ai_category) THEN ai_category ELSE JStr(ftype)

\* Lines 66-82 raise: lower() of a category that is no string, or float()
\* of a confidence that is no number.
file_raises(sugg, ftype) ==
  \/ category_source(sugg, ftype).t # "str"
  \/ float_raises(dict_get(sugg, "confidence", JNum(MissingConfidence)))

file_result(p, sugg) ==
  Only({ [filename |-> name,
          path |-> p,
          file_type |-> ftype,
          suggested_category |-> _normalize_category(category_source(sugg, ftype).s),
          confidence_score |-> float_value(dict_get(sugg, "confidence", JNum(MissingConfidence))),
          reasoning |-> dict_get(sugg, "reasoning", JStr(<<"A","I"," ","a","n","a","l","y","s","i","s">>)),
          suggested_name |-> dict_get(sugg, "suggested_name", JStr(name))] :
         <<name, ftype>> \in {<<n, _get_file_type(n)>> : n \in {path_name(p)}} })

\* error_result keeping the confidence of a missing 'confidence' key.
error_result_half(p) ==
  [filename |-> path_name(p),
   path |-> p,
   file_type |-> _get_file_type(path_name(p)),
   suggested_category |-> _normalize_category(_get_file_type(path_name(p))),
   confidence_score |-> MissingConfidence,
   reasoning |-> JStr(<<"D","e","f","a","u","l","t"," ","c","a","t","e","g","o","r","i","z","a","t","i","o","n"," ","b","a","s","e","d"," ","o","n"," ","f","i","l","e"," ","t","y","p","e">>),
   suggested_name |-> JStr(path_name(p))]

\* The except branch of the loop body.
error_result(p) ==
  Only({ [filename |-> name,
          path |-> p,
          file_type |-> ftype,
          suggested_category |-> _normalize_category(ftype),
          confidence_score |-> DefaultConfidence,
          reasoning |-> JStr(<<"D","e","f","a","u","l","t"," ","c","a","t","e","g","o","r","i","z","a","t","i","o","n"," ","b","a","s","e","d"," ","o","n"," ","f","i","l","e"," ","t","y","p","e">>),
          suggested_name |-> JStr(name)] :
         <<name, ftype>> \in {<<n, _get_file_type(n)>> : n \in {path_name(p)}} })

\* What the loop body yields for a file whose result was built.
yielded_progress(i, total_files, p, sugg) ==
  <<progress_data(i, total_files, p, file_result(p, sugg).suggested_category)>>

\* The except branch reporting the file's failure as an 'error' event.
yielded_error_event(i, total_files, p) == <<error_data("file")>>

\* What the except branch yields.
yielded_on_error(i, total_files, p) == << >>

\* The rest of the loop body, from the return of suggest_organization.
analyze_with_ai_result ==
  /\ pc = "returned"
  /\ caller = "pipeline"
  /\ IF file_raises(suggestion, file_type)
     THEN /\ error_log' = Append(error_log, files[idx])
          /\ all_files' = Append(all_files, error_result(files[idx]))
          /\ events' = events \o yielded_on_error(idx, Len(files), files[idx])
     ELSE /\ error_log' = error_log
          /\ all_files' = Append(all_files, file_result(files[idx], suggestion))
          /\ events' = events \o yielded_progress(idx, Len(files), files[idx], suggestion)
  /\ idx' = idx + 1
  /\ attempt_log' = << >>
  /\ suggestion' = EmptyDict
  /\ pc' = "loop"
  /\ UNCHANGED <<norm_vars, move_vars, walk_vars, health_vars>>
  /\ UNCHANGED <<backend, root, fs, caller, files, filename, file_type, analysis>>

\* After the last file: the 'completed' event.
analyze_with_ai_complete ==
  /\ pc = "loop"
  /\ idx > Len(files)
  /\ events' = Append(events, completed_data(all_files, Len(files)))
  /\ pc' = "done"
  /\ UNCHANGED <<norm_vars, move_vars, walk_vars, health_vars>>
  /\ UNCHANGED <<backend, root, fs, caller, files, idx, all_files, error_log, engine_vars, analysis>>

----------------------------------------------------------------------------
(* FileAnalyzer.analyze_file                                               *)

\* The checks before the analysis, and the call of suggest_organization.
analyze_file_call ==
  /\ pc = "idle"
  /\ caller' = "analyze_file"
  /\ \E f \in AnalyzeInputs, found \in {"file", "missing", "dir", "too_large"} :
       IF found = "file"
       THEN /\ filename' = f.name
            /\ file_type' = _classify_content_type(path_suffix(f.name), f.mime)
            /\ pc' = "query"
       ELSE /\ pc' = "done"
            /\ UNCHANGED <<filename, file_type>>
  /\ UNCHANGED <<norm_vars, move_vars, walk_vars, health_vars>>
  /\ UNCHANGED <<backend, root, fs, pipeline_vars, attempt_log, suggestion, analysis>>

FileAnalysis(name, content_type, sugg) ==
  [made |-> TRUE,
   content_type |-> content_type,
   suggested_name |-> dict_get(sugg, "suggested_name", JStr(name)),
   suggested_category |-> dict_get(sugg, "suggested_category", JStr(<<"m","i","s","c">>)),
   suggested_tags |-> dict_get(sugg, "suggested_tags", JList(<< >>)),
   confidence_score |-> dict_get(sugg, "confidence", JNum(MissingConfidence)),
   reasoning |-> dict_get(sugg, "reasoning", JStr(<< >>))]

analyze_file_return ==
  /\ pc = "returned"
  /\ caller = "analyze_file"
  /\ analysis' = FileAnalysis(filename, file_type, suggestion)
  /\ attempt_log' = << >>
  /\ pc' = "done"
  /\ UNCHANGED <<norm_vars, move_vars, walk_vars, health_vars>>
  /\ UNCHANGED <<backend, root, fs, caller, pipeline_vars, filename, file_type, suggestion>>

----------------------------------------------------------------------------

Next ==
  \/ analyze_with_ai_start
  \/ analyze_with_ai_call
  \/ query_ollama_attempt
  \/ analyze_with_ai_result
  \/ analyze_with_ai_complete
  \/ analyze_file_call
  \/ analyze_file_return

Spec == Init /\ [][Next]_vars

\* A run whose caller keeps taking events and whose HTTP attempts all end
\* (each has a timeout): every step of the run that can be taken is taken.
Fairness ==
  /\ WF_vars(analyze_with_ai_call)
  /\ WF_vars(query_ollama_attempt)
  /\ WF_vars(analyze_with_ai_result)
  /\ WF_vars(analyze_with_ai_complete)

SpecFair == Spec /\ Fairness

----------------------------------------------------------------------------
(* RealtimeAnalyzer._normalize_category called on its own.                 *)

\* What the inputs are made of: a space, words with and without a keyword,
\* in both cases, and a word of ten letters.
Pieces == {<<" ">>, <<"T","a","x"," ">>, <<"P","D","F">>, <<"z","i","p"," ">>, <<"P","h","o","t","o">>, <<"q","w","e","r","t","y","u","i","o","p">>}

RECURSIVE Concatenations(_)
Concatenations(n) ==
  IF n = 0 THEN {<< >>}
  ELSE LET shorter == Concatenations(n - 1)
       IN shorter \cup {s \o p : s \in shorter, p \in Pieces}

\* The examples of the specification.
Examples == {<<"P","h","o","t","o"," ","o","f"," ","c","a","t">>, <<"q","u","a","r","t","e","r","l","y"," ","r","e","p","o","r","t",".","d","o","c","x">>, <<"R","a","n","d","o","m","W","e","i","r","d","L","a","b","e","l">>,
             <<"n","o","t","e","s"," ","a","b","o","u","t"," ","t","h","e"," ","g","a","r","d","e","n"," ","a","n","d"," ","t","h","e"," ","o","l","d"," ","s","h","e","d">>}

NormalizeInputs == Concatenations(MaxPieces) \cup Examples

InitNormalize ==
  /\ backend = "up"
  /\ root = "dir"
  /\ fs = {}
  /\ pc = "idle"
  /\ caller = "none"
  /\ files = << >>
  /\ idx = 0
  /\ all_files = << >>
  /\ events = << >>
  /\ error_log = << >>
  /\ filename = << >>
  /\ file_type = << >>
  /\ attempt_log = << >>
  /\ suggestion = EmptyDict
  /\ analysis = NoAnalysis
  /\ norm_pc = "idle"
  /\ norm_input = << >>
  /\ norm_output = << >>
  /\ move_idle
  /\ walk_idle
  /\ health_idle

normalize_call ==
  /\ norm_pc = "idle"
  /\ \E category \in NormalizeInputs :
       /\ norm_input' = category
       /\ norm_output' = _normalize_category(category)
  /\ norm_pc' = "done"
  /\ UNCHANGED <<backend, root, fs, pc, caller, pipeline_vars, engine_vars, analysis,
                 move_vars, walk_vars, health_vars>>

NextNormalize == normalize_call

SpecNormalize == InitNormalize /\ [][NextNormalize]_vars

----------------------------------------------------------------------------
(* POST /move-files: move_files.  A path is the text str(Path) gives, a     *)
(* disk maps the paths that exist to what is there.                         *)

\* Most requests in the 'files' list of one batch.
MaxRequests == 3

\* str(n) of an integer n >= 0.
RECURSIVE int_str(_)
int_str(n) == IF n < 10 THEN <<Digits[n + 1]>> ELSE int_str(n \div 10) \o <<Digits[(n % 10) + 1]>>

\* Path.name: the text after the last separator.
Path_name(path) ==
  LET seps == {i \in 1..Len(path) : path[i] = "/"}
  IN IF seps = {} THEN path ELSE SubSeq(path, SetMax(seps) + 1, Len(path))

\* Path.stem: the name without its suffix.
Path_stem(path) ==
  LET name == Path_name(path)
  IN SubSeq(name, 1, Len(name) - Len(path_suffix(name)))

\* Path.suffix
Path_suffix(path) == path_suffix(Path_name(path))

\* dir / name
Path_join(dir, name) == dir \o <<"/">> \o name

\* The path itself and the directories above it.
Path_and_parents(path) ==
  {SubSeq(path, 1, i) : i \in {j \in 1..Len(path) : j = Len(path) \/ path[j + 1] = "/"}}

\* path is inside the directory dir.
Path_under(path, dir) ==
  /\ Len(path) > Len(dir) + 1
  /\ SubSeq(path, 1, Len(dir) + 1) = dir \o <<"/">>

File(content) == [kind |-> "file", content |-> content]
Directory == [kind |-> "dir", content |-> 0]

\* Path.exists()
Path_exists(d, path) == path \in DOMAIN d

\* Path.mkdir(parents=True, exist_ok=True) raises when the path or a
\* directory above it is there and is not a directory.
mkdir_raises(d, dir) ==
  \E p \in Path_and_parents(dir) : p \in DOMAIN d /\ d[p].kind # "dir"

mkdir(d, dir) ==
  [p \in DOMAIN d \cup Path_and_parents(dir) |-> IF p \in DOMAIN d THEN d[p] ELSE Directory]

\* A copy in place of a move: the source stays where it was.
rename_copying(d, src, dst) ==
  LET moved == {p \in DOMAIN d : p = src \/ Path_under(p, src)}
      target(p) == dst \o SubSeq(p, Len(src) + 1, Len(p))
      targets == {target(q) : q \in moved}
      kept == DOMAIN d \ targets
  IN [p \in kept \cup targets |->
        IF p \in kept THEN d[p]
        ELSE d[CHOOSE q \in moved : target(q) = p]]

\* shutil.move(src, dst) when dst is not a directory: os.rename, which takes
\* a directory with everything under it and replaces a file that is at dst.
rename(d, src, dst) ==
  LET moved == {p \in DOMAIN d : p = src \/ Path_under(p, src)}
      target(p) == dst \o SubSeq(p, Len(src) + 1, Len(p))
      targets == {target(q) : q \in moved}
      kept == (DOMAIN d \ moved) \ targets
  IN [p \in kept \cup targets |->
        IF p \in kept THEN d[p]
        ELSE d[CHOOSE q \in moved : target(q) = p]]

\* shutil.move when dst is an existing directory moves src into it.
shutil_destination(d, src, dst) ==
  IF dst \in DOMAIN d /\ d[dst].kind = "dir" THEN Path_join(dst, Path_name(src)) ELSE dst

\* The name move_files settles on: lines 326-334, the loop run to its end.
RECURSIVE next_free(_, _, _, _, _)
next_free(d, dest_dir, stem, suffix, counter) ==
  LET candidate == Path_join(dest_dir, stem \o <<"_">> \o int_str(counter) \o suffix)
  IN IF Path_exists(d, candidate)
     THEN next_free(d, dest_dir, stem, suffix, counter + 1)
     ELSE candidate

\* No test of what is at the destination.
resolve_dest_path_plain(d, dest_dir, name) == Path_join(dest_dir, name)

\* The loop starting its counter at 0.
resolve_dest_path_from_zero(d, dest_dir, name) ==
  LET dest == Path_join(dest_dir, name)
  IN IF Path_exists(d, dest)
     THEN next_free(d, dest_dir, Path_stem(dest), Path_suffix(dest), 0)
     ELSE dest

resolve_dest_path(d, dest_dir, name) ==
  LET dest == Path_join(dest_dir, name)
  IN IF Path_exists(d, dest)
     THEN next_free(d, dest_dir, Path_stem(dest), Path_suffix(dest), 1)
     ELSE dest

\* The disks a batch starts on: three folders with a photo.jpg each and a
\* folder in4 holding a file, and then nothing else, or base/Images holding
\* photo.jpg, or photo.jpg and photo_1.jpg, or base/Images being a file.
Sources ==
  (<<"i","n","1">> :> Directory) @@ (<<"i","n","1","/","p","h","o","t","o",".","j","p","g">> :> File(1)) @@
  (<<"i","n","2">> :> Directory) @@ (<<"i","n","2","/","p","h","o","t","o",".","j","p","g">> :> File(2)) @@
  (<<"i","n","3">> :> Directory) @@ (<<"i","n","3","/","p","h","o","t","o",".","j","p","g">> :> File(3)) @@
  (<<"i","n","4">> :> Directory) @@ (<<"i","n","4","/","i","n","n","e","r",".","t","x","t">> :> File(4))

InitialDisks ==
  { Sources,
    Sources @@ (<<"b","a","s","e">> :> Directory) @@ (<<"b","a","s","e","/","I","m","a","g","e","s">> :> Directory) @@
      (<<"b","a","s","e","/","I","m","a","g","e","s","/","p","h","o","t","o",".","j","p","g">> :> File(5)),
    Sources @@ (<<"b","a","s","e">> :> Directory) @@ (<<"b","a","s","e","/","I","m","a","g","e","s">> :> Directory) @@
      (<<"b","a","s","e","/","I","m","a","g","e","s","/","p","h","o","t","o",".","j","p","g">> :> File(5)) @@ (<<"b","a","s","e","/","I","m","a","g","e","s","/","p","h","o","t","o","_","1",".","j","p","g">> :> File(6)),
    Sources @@ (<<"b","a","s","e">> :> Directory) @@ (<<"b","a","s","e","/","I","m","a","g","e","s">> :> File(7)) }

\* The entries of 'files': a category, only a suggested_category, no path,
\* a path that is not there, a path that is a directory, and a file of
\* base/Images sent to the folder it is in or to another one.
FileInfos ==
  { ("path" :> JStr(<<"i","n","1","/","p","h","o","t","o",".","j","p","g">>)) @@ ("category" :> JStr(<<"I","m","a","g","e","s">>)),
    ("path" :> JStr(<<"i","n","2","/","p","h","o","t","o",".","j","p","g">>)) @@ ("suggested_category" :> JStr(<<"I","m","a","g","e","s">>)),
    ("path" :> JStr(<<"i","n","3","/","p","h","o","t","o",".","j","p","g">>)) @@ ("category" :> JStr(<<"I","m","a","g","e","s">>)),
    ("category" :> JStr(<<"I","m","a","g","e","s">>)),
    ("path" :> JStr(<<"i","n","9","/","g","o","n","e",".","t","x","t">>)) @@ ("category" :> JStr(<<"D","o","c","u","m","e","n","t","s">>)),
    ("path" :> JStr(<<"i","n","4">>)) @@ ("category" :> JStr(<<"I","m","a","g","e","s">>)),
    ("path" :> JStr(<<"b","a","s","e","/","I","m","a","g","e","s","/","p","h","o","t","o",".","j","p","g">>)) @@ ("category" :> JStr(<<"I","m","a","g","e","s">>)),
    ("path" :> JStr(<<"b","a","s","e","/","I","m","a","g","e","s","/","p","h","o","t","o",".","j","p","g">>)) @@ ("category" :> JStr(<<"D","o","c","u","m","e","n","t","s">>)) }

FileLists == UNION {[1..n -> FileInfos] : n \in 0..MaxRequests}

MoveRequests ==
  {("files" :> JList(l)) @@ ("base_path" :> JStr(<<"b","a","s","e">>)) : l \in FileLists}
  \cup {("files" :> JList(<<f>>)) : f \in FileInfos}

InitMove ==
  /\ backend = "up"
  /\ root = "dir"
  /\ fs = {}
  /\ pc = "idle"
  /\ caller = "none"
  /\ files = << >>
  /\ idx = 0
  /\ all_files = << >>
  /\ events = << >>
  /\ error_log = << >>
  /\ filename = << >>
  /\ file_type = << >>
  /\ attempt_log = << >>
  /\ suggestion = EmptyDict
  /\ analysis = NoAnalysis
  /\ norm_pc = "idle"
  /\ norm_input = << >>
  /\ norm_output = << >>
  /\ mv_pc = "idle"
  /\ disk \in InitialDisks
  /\ disk0 = disk
  /\ request = EmptyDict
  /\ file_i = 0
  /\ mv_results = << >>
  /\ dest_path = << >>
  /\ mv_response = NoResponse
  /\ rival_idle
  /\ walk_idle
  /\ health_idle

other_vars == <<backend, root, fs, pc, caller, pipeline_vars, engine_vars, analysis, norm_vars,
                rival_vars, walk_vars, health_vars>>

request_files == dict_get(request, "files", JList(<< >>)).l
base_path == dict_get(request, "base_path", JNull)

\* The entry the loop is at, and what lines 300-301 read from it.
file_info == request_files[file_i]
source_of(info) == dict_get(info, "path", JNull)
category_of(info) ==
  IF truthy(dict_get(info, "category", JNull))
  THEN dict_get(info, "category", JNull)
  ELSE dict_get(info, "suggested_category", JStr(Other))

\* A failure ending the loop in place of going to the next entry.
after_failure_break(i) == Len(request_files) + 1

\* 'continue' and the end of the except block: on to the next entry.
after_failure(i) == i + 1

\* A failure result that says nothing of the reason.
failure_without_error(source, error) ==
  ("success" :> FALSE) @@ ("source" :> source)

failure(source, error) ==
  ("success" :> FALSE) @@ ("source" :> source) @@ ("error" :> JStr(error))

success(source, destination, category) ==
  ("success" :> TRUE) @@ ("source" :> source) @@
  ("destination" :> JStr(destination)) @@ ("category" :> category)

\* str(e) of what shutil.move raised: the source is gone, or the system
\* refused.
move_error(d, src) ==
  IF Path_exists(d, src) THEN <<"[","E","r","r","n","o"," ","1","3","]"," ","P","e","r","m","i","s","s","i","o","n"," ","d","e","n","i","e","d">>
  ELSE <<"[","E","r","r","n","o"," ","2","]"," ","N","o"," ","s","u","c","h"," ","f","i","l","e"," ","o","r"," ","d","i","r","e","c","t","o","r","y">>

\* Lines 287-293: the request arrives; the 400 raised for a request without
\* files or base_path is raised inside the try and leaves as a 500.
move_files_begin ==
  /\ mv_pc = "idle"
  /\ \E r \in MoveRequests :
       /\ request' = r
       /\ IF ~truthy(dict_get(r, "files", JList(<< >>))) \/ ~truthy(dict_get(r, "base_path", JNull))
          THEN /\ mv_pc' = "responded"
               /\ mv_response' = [status |-> 500, body |-> EmptyDict]
               /\ file_i' = 0
          ELSE /\ mv_pc' = "loop"
               /\ mv_response' = mv_response
               /\ file_i' = 1
  /\ mv_results' = << >>
  /\ UNCHANGED <<disk, disk0, dest_path, other_vars>>

\* move_files_resolve making the folder before the source is tested.
move_files_resolve_mkdir_first ==
  /\ mv_pc = "loop"
  /\ file_i <= Len(request_files)
  /\ LET source == source_of(file_info)
         category == category_of(file_info)
         dest_dir == Path_join(base_path.s, category.s)
     IN IF mkdir_raises(disk, dest_dir)
        THEN /\ mv_results' = Append(mv_results, failure(source, <<"[","E","r","r","n","o"," ","1","7","]"," ","F","i","l","e"," ","e","x","i","s","t","s">>))
             /\ file_i' = after_failure(file_i)
             /\ UNCHANGED <<mv_pc, disk, dest_path>>
        ELSE IF ~truthy(source)
        THEN /\ mv_results' = Append(mv_results, failure(source, <<"N","o"," ","s","o","u","r","c","e"," ","p","a","t","h"," ","p","r","o","v","i","d","e","d">>))
             /\ file_i' = after_failure(file_i)
             /\ disk' = mkdir(disk, dest_dir)
             /\ UNCHANGED <<mv_pc, dest_path>>
        ELSE IF ~Path_exists(disk, source.s)
        THEN /\ mv_results' = Append(mv_results, failure(source, <<"S","o","u","r","c","e"," ","f","i","l","e"," ","n","o","t"," ","f","o","u","n","d">>))
             /\ file_i' = after_failure(file_i)
             /\ disk' = mkdir(disk, dest_dir)
             /\ UNCHANGED <<mv_pc, dest_path>>
        ELSE /\ disk' = mkdir(disk, dest_dir)
             /\ dest_path' = resolve_dest_path(disk', dest_dir, Path_name(source.s))
             /\ mv_pc' = "moving"
             /\ UNCHANGED <<mv_results, file_i>>
  /\ UNCHANGED <<disk0, request, mv_response, other_vars>>

\* Lines 298-334 for one entry: the source is read and tested, the folder is
\* made and the destination name is settled.
move_files_resolve ==
  /\ mv_pc = "loop"
  /\ file_i <= Len(request_files)
  /\ LET source == source_of(file_info)
         category == category_of(file_info)
         dest_dir == Path_join(base_path.s, category.s)
     IN IF ~truthy(source)
        THEN /\ mv_results' = Append(mv_results, failure(source, <<"N","o"," ","s","o","u","r","c","e"," ","p","a","t","h"," ","p","r","o","v","i","d","e","d">>))
             /\ file_i' = after_failure(file_i)
             /\ UNCHANGED <<mv_pc, disk, dest_path>>
        ELSE IF ~Path_exists(disk, source.s)
        THEN /\ mv_results' = Append(mv_results, failure(source, <<"S","o","u","r","c","e"," ","f","i","l","e"," ","n","o","t"," ","f","o","u","n","d">>))
             /\ file_i' = after_failure(file_i)
             /\ UNCHANGED <<mv_pc, disk, dest_path>>
        ELSE IF mkdir_raises(disk, dest_dir)
        THEN /\ mv_results' = Append(mv_results, failure(source, <<"[","E","r","r","n","o"," ","1","7","]"," ","F","i","l","e"," ","e","x","i","s","t","s">>))
             /\ file_i' = after_failure(file_i)
             /\ UNCHANGED <<mv_pc, disk, dest_path>>
        ELSE /\ disk' = mkdir(disk, dest_dir)
             /\ dest_path' = resolve_dest_path(disk', dest_dir, Path_name(source.s))
             /\ mv_pc' = "moving"
             /\ UNCHANGED <<mv_results, file_i>>
  /\ UNCHANGED <<disk0, request, mv_response, other_vars>>

\* Lines 337-346 and 348-354: shutil.move, which the system may refuse, and
\* the result of the entry.
move_files_move ==
  /\ mv_pc = "moving"
  /\ LET source == source_of(file_info)
         category == category_of(file_info)
     IN \E os_error \in BOOLEAN :
          IF os_error \/ ~Path_exists(disk, source.s)
          THEN /\ mv_results' = Append(mv_results, failure(source, move_error(disk, source.s)))
               /\ disk' = disk
               /\ file_i' = after_failure(file_i)
          ELSE /\ mv_results' = Append(mv_results, success(source, dest_path, category))
               /\ disk' = rename(disk, source.s, shutil_destination(disk, source.s, dest_path))
               /\ file_i' = file_i + 1
  /\ mv_pc' = "loop"
  /\ dest_path' = << >>
  /\ UNCHANGED <<disk0, request, mv_response, other_vars>>

\* Lines 356-363: the loop is over.
move_files_return ==
  /\ mv_pc = "loop"
  /\ file_i > Len(request_files)
  /\ mv_pc' = "responded"
  /\ mv_response' =
       [status |-> 200,
        body |-> ("success" :> TRUE) @@
                 ("moved" :> Cardinality({i \in 1..Len(mv_results) : mv_results[i].success})) @@
                 ("total" :> Len(request_files)) @@
                 ("results" :> mv_results)]
  /\ UNCHANGED <<disk, disk0, request, file_i, mv_results, dest_path, other_vars>>

NextMove ==
  \/ move_files_begin
  \/ move_files_resolve
  \/ move_files_move
  \/ move_files_return

SpecMove == InitMove /\ [][NextMove]_vars

----------------------------------------------------------------------------
(* Two server processes running move_files on one filesystem.  Inside one   *)
(* process move_files has no await and runs to its end before the event     *)
(* loop takes another request, so batches overlap only across processes.    *)
(* A step of a process is the tests and the mkdir of an entry, or its       *)
(* shutil.move.                                                             *)

\* Most entries in a batch when two batches run side by side.
MaxOverlapRequests == 1

\* The batches that run side by side bring photo.jpg files in from outside base.
PhotoInfos ==
  {f \in FileInfos : /\ "path" \in DOMAIN f
                     /\ Path_name(f["path"].s) = <<"p","h","o","t","o",".","j","p","g">>
                     /\ ~Path_under(f["path"].s, <<"b","a","s","e">>)}

OverlapRequests ==
  {("files" :> JList(l)) @@ ("base_path" :> JStr(<<"b","a","s","e">>)) :
     l \in UNION {[1..n -> PhotoInfos] : n \in 1..MaxOverlapRequests}}

rival_files == dict_get(rival_request, "files", JList(<< >>)).l
rival_base_path == dict_get(rival_request, "base_path", JNull)
rival_file_info == rival_files[rival_i]

first_vars == <<mv_pc, request, file_i, mv_results, dest_path, mv_response>>
pipeline_and_norm_vars ==
  <<backend, root, fs, pc, caller, pipeline_vars, engine_vars, analysis, norm_vars, walk_vars,
    health_vars>>

\* Lines 287-293 in the first process.
overlap_begin ==
  /\ mv_pc = "idle"
  /\ \E r \in OverlapRequests : request' = r
  /\ mv_pc' = "loop"
  /\ file_i' = 1
  /\ mv_results' = << >>
  /\ UNCHANGED <<disk, disk0, dest_path, mv_response, other_vars>>

\* Lines 287-293 in the second process.
rival_begin ==
  /\ rival_pc = "idle"
  /\ \E r \in OverlapRequests : rival_request' = r
  /\ rival_pc' = "loop"
  /\ rival_i' = 1
  /\ rival_results' = << >>
  /\ UNCHANGED <<disk, disk0, rival_dest, first_vars, pipeline_and_norm_vars>>

\* Lines 298-334 in the second process.
rival_resolve ==
  /\ rival_pc = "loop"
  /\ rival_i <= Len(rival_files)
  /\ LET source == source_of(rival_file_info)
         category == category_of(rival_file_info)
         dest_dir == Path_join(rival_base_path.s, category.s)
     IN IF ~truthy(source)
        THEN /\ rival_results' = Append(rival_results, failure(source, <<"N","o"," ","s","o","u","r","c","e"," ","p","a","t","h"," ","p","r","o","v","i","d","e","d">>))
             /\ rival_i' = rival_i + 1
             /\ UNCHANGED <<rival_pc, disk, rival_dest>>
        ELSE IF ~Path_exists(disk, source.s)
        THEN /\ rival_results' = Append(rival_results, failure(source, <<"S","o","u","r","c","e"," ","f","i","l","e"," ","n","o","t"," ","f","o","u","n","d">>))
             /\ rival_i' = rival_i + 1
             /\ UNCHANGED <<rival_pc, disk, rival_dest>>
        ELSE IF mkdir_raises(disk, dest_dir)
        THEN /\ rival_results' = Append(rival_results, failure(source, <<"[","E","r","r","n","o"," ","1","7","]"," ","F","i","l","e"," ","e","x","i","s","t","s">>))
             /\ rival_i' = rival_i + 1
             /\ UNCHANGED <<rival_pc, disk, rival_dest>>
        ELSE /\ disk' = mkdir(disk, dest_dir)
             /\ rival_dest' = resolve_dest_path(disk', dest_dir, Path_name(source.s))
             /\ rival_pc' = "moving"
             /\ UNCHANGED <<rival_results, rival_i>>
  /\ UNCHANGED <<disk0, rival_request, first_vars, pipeline_and_norm_vars>>

\* Lines 337-354 in the second process.
rival_move ==
  /\ rival_pc = "moving"
  /\ LET source == source_of(rival_file_info)
         category == category_of(rival_file_info)
     IN \E os_error \in BOOLEAN :
          IF os_error \/ ~Path_exists(disk, source.s)
          THEN /\ rival_results' = Append(rival_results, failure(source, move_error(disk, source.s)))
               /\ disk' = disk
          ELSE /\ rival_results' = Append(rival_results, success(source, rival_dest, category))
               /\ disk' = rename(disk, source.s, shutil_destination(disk, source.s, rival_dest))
  /\ rival_pc' = "loop"
  /\ rival_i' = rival_i + 1
  /\ rival_dest' = << >>
  /\ UNCHANGED <<disk0, rival_request, first_vars, pipeline_and_norm_vars>>

\* Lines 356-363 in the second process.
rival_return ==
  /\ rival_pc = "loop"
  /\ rival_i > Len(rival_files)
  /\ rival_pc' = "responded"
  /\ UNCHANGED <<disk, disk0, rival_request, rival_i, rival_results, rival_dest, first_vars,
                 pipeline_and_norm_vars>>

NextOverlap ==
  \/ overlap_begin
  \/ move_files_resolve
  \/ move_files_move
  \/ move_files_return
  \/ rival_begin
  \/ rival_resolve
  \/ rival_move
  \/ rival_return

SpecOverlap == InitMove /\ [][NextOverlap]_vars

----------------------------------------------------------------------------
(* RealtimeAnalyzer._get_files on a tree of directories.  An entry is its   *)
(* rank in the lexicographic order of the paths, path being "r".            *)

\* Most entries whose stat raises.
MaxBad == 1

WalkTable == <<
  [path |-> <<"r","/",".","e","n","v">>, kind |-> "file"],
  [path |-> <<"r","/",".","h","i","d","d","e","n">>, kind |-> "dir"],
  [path |-> <<"r","/",".","h","i","d","d","e","n","/","f","i","l","e",".","t","x","t">>, kind |-> "file"],
  [path |-> <<"r","/","a",".","t","x","t">>, kind |-> "file"],
  [path |-> <<"r","/","v","i","s","i","b","l","e">>, kind |-> "dir"],
  [path |-> <<"r","/","v","i","s","i","b","l","e","/",".","g","i","t">>, kind |-> "dir"],
  [path |-> <<"r","/","v","i","s","i","b","l","e","/",".","g","i","t","/","c","o","n","f","i","g">>, kind |-> "file"],
  [path |-> <<"r","/","v","i","s","i","b","l","e","/","f","i","l","e",".","t","x","t">>, kind |-> "file"],
  [path |-> <<"r","/","z",".","t","x","t">>, kind |-> "file"] >>

Entries == 1..Len(WalkTable)

entry_name(e) == Path_name(WalkTable[e].path)

\* The directory an entry is in: an entry, or 0 for path itself.
entry_parent(e) ==
  LET text == WalkTable[e].path
      dir == SubSeq(text, 1, Len(text) - Len(entry_name(e)) - 1)
  IN IF \E d \in Entries : WalkTable[d].path = dir
     THEN CHOOSE d \in Entries : WalkTable[d].path = dir
     ELSE 0

\* The trees: with an entry, the directory it is in.
Trees == {t \in SUBSET Entries : \A e \in t : entry_parent(e) = 0 \/ entry_parent(e) \in t}

scandir(tree, top) == {e \in tree : entry_parent(e) = top}

\* os.walk(top): the file names of top and of the directories below it that
\* the loop body leaves in dirs.  An entry whose is_dir() raises counts as
\* a file name; the loop body keeps the names that do not start with a dot.
RECURSIVE os_walk(_, _, _)
os_walk(tree, bad, top) ==
  LET entries == scandir(tree, top)
      dirs == {e \in entries : WalkTable[e].kind = "dir" /\ e \notin bad}
      filenames == entries \ dirs
  IN {f \in filenames : ~str_startswith(entry_name(f), ".")}
     \cup UNION {os_walk(tree, bad, d) : d \in {x \in dirs : ~str_startswith(entry_name(x), ".")}}

\* os.walk without the pruning of dirs.
files_recursive_unpruned(tree, bad, top) ==
  LET below(e) == \E i \in 1..Len(WalkTable[e].path) :
                     \E d \in scandir(tree, top) :
                        SubSeq(WalkTable[e].path, 1, i) = WalkTable[d].path
      reached == {e \in tree : below(e)}
  IN {f \in reached : (WalkTable[f].kind # "dir" \/ f \in bad)
                        /\ ~str_startswith(entry_name(f), ".")}

\* Lines 195-200.
files_recursive(tree, bad, top) == os_walk(tree, bad, top)

\* Lines 201-204 when the loop took the entries in 'before' and then ended,
\* at the end of the directory or at an entry whose is_file() raised.
files_flat(tree, bad, before) ==
  {item \in before : WalkTable[item].kind = "file" /\ ~str_startswith(entry_name(item), ".")}

\* What iterdir can have given before the loop ended: everything when no
\* is_file() raises, and else what the directory held before the first
\* entry that raises, the order being the filesystem's.
iterdir_prefixes(tree, bad) ==
  LET items == scandir(tree, 0)
  IN IF items \cap bad = {} THEN {items} ELSE SUBSET (items \ bad)

RootStats == {"ok", "ENOENT", "ENAMETOOLONG"}

InitWalk ==
  /\ backend = "up"
  /\ root = "dir"
  /\ fs = {}
  /\ pc = "idle"
  /\ caller = "none"
  /\ files = << >>
  /\ idx = 0
  /\ all_files = << >>
  /\ events = << >>
  /\ error_log = << >>
  /\ filename = << >>
  /\ file_type = << >>
  /\ attempt_log = << >>
  /\ suggestion = EmptyDict
  /\ analysis = NoAnalysis
  /\ norm_pc = "idle"
  /\ norm_input = << >>
  /\ norm_output = << >>
  /\ move_idle
  /\ walk_pc = "idle"
  /\ walk_root \in RootStats
  /\ walk_recursive \in BOOLEAN
  /\ walk_tree \in {t \in Trees : walk_root # "ok" => t = {}}
  /\ walk_bad \in {b \in SUBSET walk_tree : Cardinality(b) <= MaxBad}
  /\ walk_files = << >>
  /\ health_idle

not_walk_vars ==
  <<backend, root, fs, pc, caller, pipeline_vars, engine_vars, analysis, norm_vars, move_vars,
    health_vars>>

\* Lines 183-207.  Path.exists() gives False for a path that is not there
\* and raises for a stat that fails otherwise; that is before the try.
get_files_call ==
  /\ walk_pc = "idle"
  /\ IF walk_root = "ENOENT"
     THEN /\ walk_pc' = "returned"
          /\ walk_files' = << >>
     ELSE IF walk_root # "ok"
     THEN /\ walk_pc' = "raised"
          /\ walk_files' = << >>
     ELSE /\ walk_pc' = "returned"
          /\ IF walk_recursive
             THEN walk_files' = sorted(files_recursive(walk_tree, walk_bad, 0))
             ELSE \E before \in iterdir_prefixes(walk_tree, walk_bad) :
                     walk_files' = sorted(files_flat(walk_tree, walk_bad, before))
  /\ UNCHANGED <<walk_root, walk_recursive, walk_tree, walk_bad, not_walk_vars>>

NextWalk == get_files_call

SpecWalk == InitWalk /\ [][NextWalk]_vars

----------------------------------------------------------------------------
(* AIEngine.health_check and AIEngine._pull_model                           *)

ModelNames == {<<"l","l","a","m","a","3",":","l","a","t","e","s","t">>, <<"m","i","s","t","r","a","l",":","l","a","t","e","s","t">>, <<"p","h","i","3",":","l","a","t","e","s","t">>}

\* GET /api/tags: no connection or a timeout, a status other than 200, a
\* 200 whose body is no JSON, a 200 with the list of models.
TagsReplies == {"unreachable", "status", "bad_body", "ok"}

\* POST /api/pull: the model arrives, the backend answers with an error
\* line, or the connection fails.  _pull_model returns in every case.
PullOutcomes == {"pulled", "error_line", "connect_error"}

_pull_model(registry, model, outcome) ==
  IF outcome = "pulled" THEN registry \cup {model} ELSE registry

InitHealth ==
  /\ backend = "up"
  /\ root = "dir"
  /\ fs = {}
  /\ pc = "idle"
  /\ caller = "none"
  /\ files = << >>
  /\ idx = 0
  /\ all_files = << >>
  /\ events = << >>
  /\ error_log = << >>
  /\ filename = << >>
  /\ file_type = << >>
  /\ attempt_log = << >>
  /\ suggestion = EmptyDict
  /\ analysis = NoAnalysis
  /\ norm_pc = "idle"
  /\ norm_input = << >>
  /\ norm_output = << >>
  /\ move_idle
  /\ walk_idle
  /\ hc_pc = "idle"
  /\ hc_endpoint \in TagsReplies
  /\ hc_registry \in SUBSET ModelNames
  /\ hc_model \in ModelNames
  /\ hc_result = FALSE

not_health_vars ==
  <<backend, root, fs, pc, caller, pipeline_vars, engine_vars, analysis, norm_vars, move_vars,
    walk_vars>>

\* Lines 41-49 and 53-57: the request, and the answer when no pull is due.
health_check_get ==
  /\ hc_pc = "idle"
  /\ IF hc_endpoint # "ok"
     THEN /\ hc_result' = FALSE
          /\ hc_pc' = "returned"
     ELSE IF hc_model \notin hc_registry
     THEN /\ hc_pc' = "pulling"
          /\ hc_result' = hc_result
     ELSE /\ hc_result' = TRUE
          /\ hc_pc' = "returned"
  /\ UNCHANGED <<hc_endpoint, hc_registry, hc_model, not_health_vars>>

\* Lines 49-51 and 60-73: await self._pull_model()
health_check_pull ==
  /\ hc_pc = "pulling"
  /\ \E outcome \in PullOutcomes : hc_registry' = _pull_model(hc_registry, hc_model, outcome)
  /\ hc_pc' = "pulled"
  /\ UNCHANGED <<hc_endpoint, hc_model, hc_result, not_health_vars>>

\* Line 53 after the pull.
health_check_return ==
  /\ hc_pc = "pulled"
  /\ hc_result' = TRUE
  /\ hc_pc' = "returned"
  /\ UNCHANGED <<hc_endpoint, hc_registry, hc_model, not_health_vars>>

NextHealth ==
  \/ health_check_get
  \/ health_check_pull
  \/ health_check_return

SpecHealth == InitHealth /\ [][NextHealth]_vars

----------------------------------------------------------------------------
(* Properties.                                                             *)

Terminal == {"completed", "error"}
RunEnded == pc = "done" /\ caller = "pipeline"
LastEvent == events[Len(events)]
EventsOfType(type) == {i \in 1..Len(events) : events[i].type = type}

\* After the first event come 'progress' events and then one terminal
\* event, which is the last one; a run that ended has its terminal event.
EventsTail ==
  /\ \A i \in 2..Len(events) : events[i].type \in {"progress"} \cup Terminal
  /\ \A i \in 1..(Len(events) - 1) : events[i].type \notin Terminal
  /\ RunEnded => (Len(events) > 0 /\ LastEvent.type \in Terminal)
  /\ ~RunEnded => \A i \in 1..Len(events) : events[i].type \notin Terminal

\* C1 as stated: every run's events are one 'started', then 'progress'
\* events, then exactly one terminal event and nothing after it.
C1_StartedAlwaysFirst ==
  /\ Len(events) > 0 => events[1].type = "started"
  /\ EventsTail

\* C1 amended: the events of a run are the single event 'error' (the walk
\* failed before 'started'), or one 'started', then 'progress' events, then
\* exactly one terminal event, 'completed' or 'error', and nothing after it.
C1_EventOrder ==
  /\ Len(events) > 0 =>
       \/ events[1].type = "started"
       \/ (Len(events) = 1 /\ events[1].type = "error")
  /\ EventsTail

C1_Witness ==
  /\ RunEnded
  /\ Len(events) = 4
  /\ events[1].type = "started"
  /\ events[2].type = "progress"
  /\ events[3].type = "progress"
  /\ events[4].type = "completed"

\* C2 as stated: a file whose processing raised inside the loop body has
\* its 'progress' event by the time the loop goes on to the next file.
C2_ProgressOnFileError ==
  \A k \in 1..Len(error_log) :
     \E i \in 1..Len(events) :
        events[i].type = "progress" /\ events[i].current_file = error_log[k]

\* C3: a file whose processing raised has its result entry with confidence
\* 0.3, the default-categorization reasoning and its own filename as the
\* suggested name; no 'error' event follows from it, and the run ends with
\* 'completed' and an entry for every file of the walk, in order.
C3_FileErrorIsLocal ==
  /\ \A k \in 1..Len(error_log) :
       \E j \in 1..Len(all_files) :
          /\ all_files[j].path = error_log[k]
          /\ all_files[j].confidence_score = 30
          /\ all_files[j].reasoning = JStr(<<"D","e","f","a","u","l","t"," ","c","a","t","e","g","o","r","i","z","a","t","i","o","n"," ","b","a","s","e","d"," ","o","n"," ","f","i","l","e"," ","t","y","p","e">>)
          /\ all_files[j].suggested_name = JStr(path_name(error_log[k]))
  /\ error_log # << >> => EventsOfType("error") = {}
  /\ (RunEnded /\ error_log # << >>) =>
       /\ LastEvent.type = "completed"
       /\ Len(LastEvent.files) = Len(files)
       /\ \A i \in 1..Len(files) : LastEvent.files[i].path = files[i]

C3_Witness ==
  /\ RunEnded
  /\ Len(files) = 2
  /\ error_log = <<files[1]>>
  /\ LastEvent.type = "completed"
  /\ EventsOfType("progress") # {}

\* C4 as stated: a run over at least one file that ends with 'completed'
\* has a last 'progress' event, whose processed is the total of 'started'.
C4_LastProgressIsTotal ==
  (RunEnded /\ Len(files) >= 1 /\ LastEvent.type = "completed") =>
     /\ EventsOfType("progress") # {}
     /\ events[SetMax(EventsOfType("progress"))].processed = events[1].total

\* C5: the files of 'completed' are the paths of the walk, one entry each,
\* in increasing lexicographic order, as many as 'started' announced.
C5_CompletedHasEveryFile ==
  (RunEnded /\ LastEvent.type = "completed") =>
     LET entries == LastEvent.files
         walked == {p \in fs : path_name(p)[1] # "."}
     IN /\ Len(entries) = events[1].total
        /\ Len(entries) = Cardinality(walked)
        /\ {entries[i].path : i \in 1..Len(entries)} = walked
        /\ \A i \in 1..Len(entries), j \in 1..Len(entries) :
              i < j => entries[i].path < entries[j].path

C5_Witness ==
  /\ RunEnded
  /\ LastEvent.type = "completed"
  /\ Len(LastEvent.files) = 2
  /\ error_log = <<files[2]>>
  /\ LastEvent.files[1].confidence_score = 95

\* C6: with the backend down for the whole run, a run over n files yields
\* 'started' with total n, 'progress' with processed 1..n in order, and
\* 'completed' with n entries of confidence 0.3; it yields no 'error'.
C6_BackendDownStream ==
  (backend = "down" /\ caller = "pipeline" /\ root # "error") =>
     /\ EventsOfType("error") = {}
     /\ RunEnded =>
          LET n == Len(files)
          IN /\ Len(events) = n + 2
             /\ events[1].type = "started"
             /\ events[1].total = n
             /\ \A i \in 1..n :
                   /\ events[i + 1].type = "progress"
                   /\ events[i + 1].processed = i
                   /\ events[i + 1].current_file = files[i]
             /\ events[n + 2].type = "completed"
             /\ Len(events[n + 2].files) = n
             /\ \A i \in 1..n : events[n + 2].files[i].confidence_score = 30

C6_Witness ==
  /\ backend = "down"
  /\ RunEnded
  /\ files = <<2, 3, 4>>
  /\ Len(events) = 5
  /\ LastEvent.files[3].suggested_category = <<"A","r","c","h","i","v","e","s">>

AllAttemptsFailed ==
  /\ Len(attempt_log) = 3
  /\ \A i \in 1..Len(attempt_log) : attempt_log[i].kind # "ok"

\* C7: when all three attempts of the query failed, suggest_organization
\* returns the default suggestion: the filename as name, the file type as
\* the only tag, confidence 0.3 and the default reasoning.
C7_DefaultAfterRetries ==
  (pc = "returned" /\ AllAttemptsFailed) =>
     /\ DOMAIN suggestion = {"suggested_name", "suggested_category", "suggested_tags",
                             "confidence", "reasoning"}
     /\ suggestion.suggested_name = JStr(filename)
     /\ suggestion.suggested_tags = JList(<<file_type>>)
     /\ suggestion.confidence = JNum(30)
     /\ suggestion.reasoning = JStr(<<"D","e","f","a","u","l","t"," ","s","u","g","g","e","s","t","i","o","n"," ","(","A","I"," ","u","n","a","v","a","i","l","a","b","l","e",")">>)

C7_Witness ==
  /\ pc = "returned"
  /\ AllAttemptsFailed
  /\ file_type = <<"u","n","k","n","o","w","n">>
  /\ attempt_log[3].kind = "bad_body"

IsDefaultSuggestion ==
  /\ pc = "returned"
  /\ dict_get(suggestion, "reasoning", JNull) = JStr(<<"D","e","f","a","u","l","t"," ","s","u","g","g","e","s","t","i","o","n"," ","(","A","I"," ","u","n","a","v","a","i","l","a","b","l","e",")">>)

\* C8 as stated: the default category is Images, Documents, Media,
\* Archives, Code for image, document, media, archive, code; else Misc.
C8_TextGivesMisc ==
  IsDefaultSuggestion =>
     suggestion.suggested_category =
        JStr(CASE file_type = <<"i","m","a","g","e">> -> <<"I","m","a","g","e","s">>
               [] file_type = <<"d","o","c","u","m","e","n","t">> -> <<"D","o","c","u","m","e","n","t","s">>
               [] file_type = <<"m","e","d","i","a">> -> <<"M","e","d","i","a">>
               [] file_type = <<"a","r","c","h","i","v","e">> -> <<"A","r","c","h","i","v","e","s">>
               [] file_type = <<"c","o","d","e">> -> <<"C","o","d","e">>
               [] OTHER -> <<"M","i","s","c">>)

\* C8 amended: the default category is Images for image, Documents for
\* document and for text, Media for media, Archives for archive, Code for
\* code, and Misc for every other type.
C8_DefaultCategory ==
  IsDefaultSuggestion =>
     suggestion.suggested_category =
        JStr(CASE file_type = <<"i","m","a","g","e">> -> <<"I","m","a","g","e","s">>
               [] file_type \in {<<"d","o","c","u","m","e","n","t">>, <<"t","e","x","t">>} -> <<"D","o","c","u","m","e","n","t","s">>
               [] file_type = <<"m","e","d","i","a">> -> <<"M","e","d","i","a">>
               [] file_type = <<"a","r","c","h","i","v","e">> -> <<"A","r","c","h","i","v","e","s">>
               [] file_type = <<"c","o","d","e">> -> <<"C","o","d","e">>
               [] OTHER -> <<"M","i","s","c">>)

C8_Witness ==
  /\ IsDefaultSuggestion
  /\ file_type = <<"t","e","x","t">>
  /\ suggestion.suggested_category = JStr(<<"D","o","c","u","m","e","n","t","s">>)

\* C9 as stated: a query makes at most 3 attempts, no attempt follows one
\* that got a status-200 reply, and the third failure ends the query.
C9_StopsAtFirst200 ==
  /\ Len(attempt_log) <= 3
  /\ \A i \in 1..(Len(attempt_log) - 1) : attempt_log[i].kind \notin {"ok", "bad_body"}
  /\ pc = "query" => Len(attempt_log) < 3

\* C10: a status-200 reply whose text holds no decodable JSON object is the
\* last attempt of its query; when it answers the first attempt, the query
\* made one request, and suggest_organization returns the default.
NoJsonObject(text) ==
  \A i \in 1..Len(text), j \in 1..Len(text) : ~json_loads(SubSeq(text, i, j)).ok

C10_UnparseableNotRetried ==
  /\ \A i \in 1..Len(attempt_log) :
        (attempt_log[i].kind = "ok" /\ NoJsonObject(attempt_log[i].text)) =>
           (i = Len(attempt_log) /\ pc = "returned")
  /\ (pc = "returned" /\ attempt_log[1].kind = "ok" /\ NoJsonObject(attempt_log[1].text)) =>
        /\ Len(attempt_log) = 1
        /\ suggestion =
             [suggested_name |-> JStr(filename),
              suggested_category |-> JStr(category_map(file_type)),
              suggested_tags |-> JList(<<file_type>>),
              confidence |-> JNum(30),
              reasoning |-> JStr(<<"D","e","f","a","u","l","t"," ","s","u","g","g","e","s","t","i","o","n"," ","(","A","I"," ","u","n","a","v","a","i","l","a","b","l","e",")">>)]

C10_Witness ==
  /\ pc = "returned"
  /\ Len(attempt_log) = 1
  /\ attempt_log[1].kind = "ok"
  /\ attempt_log[1].text = text_malformed
  /\ suggestion.confidence = JNum(30)


\* C11 as stated: an attempt is followed by another attempt only when it
\* failed by timeout, connection error or a status other than 2xx.
C11_RetryOnlyTransient ==
  \A i \in 1..(Len(attempt_log) - 1) :
     attempt_log[i].kind \in {"timeout", "connect_error", "status"}

\* C12 as stated: every confidence_score of a result entry and every
\* confidence suggest_organization returns lies between 0 and 1.
C12_ConfidenceInUnitInterval ==
  /\ \A j \in 1..Len(all_files) :
        0 <= all_files[j].confidence_score /\ all_files[j].confidence_score <= 100
  /\ (pc = "returned" /\ dict_get(suggestion, "confidence", JNull).t = "num") =>
        (0 <= suggestion.confidence.n /\ suggestion.confidence.n <= 100)

\* C14 as stated: the category of every 'progress' event and of every
\* result entry is a non-empty string: a fixed folder name, 'Other', or
\* the trimmed text it was made from.
C14_CategoryNonEmpty ==
  /\ \A i \in EventsOfType("progress") : events[i].category # << >>
  /\ \A j \in 1..Len(all_files) : all_files[j].suggested_category # << >>

\* C24 as stated: a run on a root that does not exist ends with the one
\* event 'error' and has no 'completed' event.
C24_MissingRootIsError ==
  (RunEnded /\ root = "missing") =>
     /\ LastEvent.type = "error"
     /\ Cardinality(EventsOfType("error")) = 1
     /\ EventsOfType("completed") = {}

CoarseTypes == {<<"t","e","x","t">>, <<"d","o","c","u","m","e","n","t">>, <<"i","m","a","g","e">>, <<"m","e","d","i","a">>, <<"a","r","c","h","i","v","e">>, <<"c","o","d","e">>, <<"u","n","k","n","o","w","n">>}

\* C26 as stated: the type suggest_organization is called with is one of
\* text, document, image, media, archive, code, unknown.
C26_CoarseTypePassed ==
  pc = "query" => file_type \in CoarseTypes

\* C28: under SpecFair every run of the pipeline comes to its end with a
\* last event that is 'completed', holding a result for every file, or
\* 'error', and no run ends without one of the two.
C28_EventuallyTerminal ==
  /\ [](RunEnded => (Len(events) > 0 /\ LastEvent.type \in Terminal))
  /\ (caller = "pipeline") ~>
        ( /\ RunEnded
          /\ Len(events) > 0
          /\ \/ LastEvent.type = "error" /\ Cardinality(EventsOfType("error")) = 1
             \/ LastEvent.type = "completed" /\ Len(LastEvent.files) = Len(files) )

\* A run over two files with the backend down that came to 'completed'.
C28_Witness ==
  /\ RunEnded
  /\ backend = "down"
  /\ Len(files) = 2
  /\ LastEvent.type = "completed"
  /\ Len(LastEvent.files) = 2

\* C29 as stated: when the first balanced {...} span of the generated text
\* is a JSON object (with a member), suggest_organization returns that
\* object, also when a second object or a closing brace follows it.
BraceDepth(text, i, j) ==
  Cardinality({k \in i..j : text[k].tok = "{"}) - Cardinality({k \in i..j : text[k].tok = "}"})

FirstBalancedSpan(text) ==
  LET start == text_find(text, "{") + 1
      ends == {j \in start..Len(text) : BraceDepth(text, start, j) = 0}
  IN IF start = 0 \/ ends = {} THEN << >> ELSE SubSeq(text, start, SetMin(ends))

C29_FirstBalancedSpanDecoded ==
  (pc = "returned" /\ attempt_log # << >> /\ attempt_log[Len(attempt_log)].kind = "ok") =>
     LET decoded == json_loads(FirstBalancedSpan(attempt_log[Len(attempt_log)].text))
     IN (decoded.ok /\ decoded.val # EmptyDict) => suggestion = decoded.val

\* C31: files are processed one at a time in walker order: while the
\* inference request of file idx is in flight or has just returned, the
\* result entries of exactly the files before it are recorded, in the order
\* of the listing, the attempts logged are those of that one file, and the
\* 'processed' values of successive 'progress' events strictly increase.
ProgressEvents == SelectSeq(events, LAMBDA e : e.type = "progress")

C31_OneFileAtATime ==
  (caller = "pipeline") =>
     /\ \A k \in 1..Len(all_files) : all_files[k].path = files[k]
     /\ (pc \in {"query", "returned"}) =>
           /\ Len(all_files) = idx - 1
           /\ filename = path_name(files[idx])
           /\ Len(attempt_log) <= MaxAttempts
     /\ (pc = "loop") => (Len(all_files) = idx - 1 /\ attempt_log = << >>)
     /\ \A i \in 1..Len(ProgressEvents), j \in 1..Len(ProgressEvents) :
           i < j => ProgressEvents[i].processed < ProgressEvents[j].processed

C31_Witness ==
  /\ caller = "pipeline"
  /\ pc = "query"
  /\ idx = 3
  /\ Len(attempt_log) = 1
  /\ Len(all_files) = 2
  /\ Len(ProgressEvents) = 2

\* The formulas below are about SpecNormalize.

Trimmed(s) == str_strip(s)
IsBlank(s) == \A i \in 1..Len(s) : s[i] \in Whitespace

\* No keyword of any bucket occurs in the lower-cased input.
Unmatched(s) ==
  \A b \in 1..Len(CategoryBuckets) :
     \A k \in 1..Len(CategoryBuckets[b].words) :
        ~str_contains(str_lower(s), CategoryBuckets[b].words[k])

\* The words of s: the maximal runs of characters other than a space.
WordCount(s) ==
  Cardinality({i \in 1..Len(s) : s[i] # " " /\ (i = 1 \/ s[i - 1] = " ")})

SpaceCount(s) == Cardinality({i \in 1..Len(s) : s[i] = " "})

\* C13 as stated: every empty and every blank input gives 'Other'.
C13_BlankGivesOther ==
  (norm_pc = "done" /\ IsBlank(norm_input)) => norm_output = <<"O","t","h","e","r">>

\* C15 as stated: an unmatched input that is not blank is returned trimmed when it is under
\* 30 characters and has fewer than 3 words, and gives 'Other' otherwise.
C15_FewerThanThreeWords ==
  (norm_pc = "done" /\ ~IsBlank(norm_input) /\ Unmatched(norm_input)) =>
     IF Len(Trimmed(norm_input)) < 30 /\ WordCount(Trimmed(norm_input)) < 3
     THEN norm_output = Trimmed(norm_input)
     ELSE norm_output = <<"O","t","h","e","r">>

\* C15 amended: an unmatched input that is not blank is returned trimmed when the
\* trimmed input is under 30 characters and holds fewer than 3 spaces, and
\* gives 'Other' otherwise.
C15_FewerThanThreeSpaces ==
  (norm_pc = "done" /\ ~IsBlank(norm_input) /\ Unmatched(norm_input)) =>
     IF Len(Trimmed(norm_input)) < 30 /\ SpaceCount(Trimmed(norm_input)) < 3
     THEN norm_output = Trimmed(norm_input)
     ELSE norm_output = <<"O","t","h","e","r">>

C15_Witness ==
  /\ norm_pc = "done"
  /\ norm_input = <<"T","a","x"," ","T","a","x"," ","T","a","x"," ">>
  /\ norm_output = <<"T","a","x"," ","T","a","x"," ","T","a","x">>

\* Upper case to lower case and lower case to upper case.
char_swapcase(c) ==
  IF \E i \in 1..26 : UpperCase[i] = c
  THEN LowerCase[CHOOSE i \in 1..26 : UpperCase[i] = c]
  ELSE IF \E i \in 1..26 : LowerCase[i] = c
       THEN UpperCase[CHOOSE i \in 1..26 : LowerCase[i] = c]
       ELSE c

str_swapcase(s) == [i \in 1..Len(s) |-> char_swapcase(s[i])]

FixedOrder == <<<<"D","o","c","u","m","e","n","t","s">>, <<"I","m","a","g","e","s">>, <<"V","i","d","e","o","s">>, <<"A","u","d","i","o">>, <<"C","o","d","e">>, <<"A","r","c","h","i","v","e","s">>,
                <<"L","o","g","s"," ","&"," ","C","o","n","f","i","g","s">>, <<"D","a","t","a">>>>

\* Bucket b of the fixed order has a keyword in the lower-cased input.
KeywordOf(b, s) ==
  \E k \in 1..Len(CategoryBuckets[b].words) :
     str_contains(str_lower(s), CategoryBuckets[b].words[k])

\* C16: an input with a keyword gives the first bucket of the fixed order
\* that has a keyword in the lower-cased input, whatever later buckets
\* match, and the input with the case of its letters swapped gives the same.
C16_FirstBucketWins ==
  (norm_pc = "done" /\ ~Unmatched(norm_input)) =>
     /\ \E b \in 1..Len(FixedOrder) :
           /\ KeywordOf(b, norm_input)
           /\ \A earlier \in 1..(b - 1) : ~KeywordOf(earlier, norm_input)
           /\ norm_output = FixedOrder[b]
     /\ _normalize_category(str_swapcase(norm_input)) = norm_output

C16_Witness ==
  /\ norm_pc = "done"
  /\ norm_input = <<"z","i","p"," ","P","h","o","t","o">>
  /\ norm_output = <<"I","m","a","g","e","s">>

\* C36 as stated: normalizing the result of _normalize_category again gives
\* the same folder name, for every input, blank input included.
C36_Idempotent ==
  (norm_pc = "done") => _normalize_category(norm_output) = norm_output

\* C17 as stated: "quarterly report.docx" gives "Documents".
C17_QuarterlyReport ==
  (norm_pc = "done" /\ norm_input = <<"q","u","a","r","t","e","r","l","y"," ","r","e","p","o","r","t",".","d","o","c","x">>) =>
     norm_output = <<"D","o","c","u","m","e","n","t","s">>

\* The formulas below are about SpecMove.

BatchAnswered == mv_pc = "responded" /\ mv_response.status = 200

\* C18: while a batch runs there is one result for every entry already
\* passed, and the answer holds one result for every entry, the i-th result
\* being about the i-th entry, whichever entries failed.
C18_OneResultPerRequest ==
  /\ mv_pc = "loop" => Len(mv_results) = file_i - 1
  /\ mv_pc = "moving" => Len(mv_results) = file_i - 1
  /\ BatchAnswered =>
       /\ Len(mv_response.body.results) = Len(request_files)
       /\ \A i \in 1..Len(request_files) :
             mv_response.body.results[i].source = dict_get(request_files[i], "path", JNull)

\* A batch whose first entry failed and whose last entry was moved.
C18_Witness ==
  /\ BatchAnswered
  /\ Len(request_files) = 3
  /\ ~mv_results[1].success
  /\ ~mv_results[2].success
  /\ mv_results[1].error.s # mv_results[2].error.s
  /\ mv_results[3].success

\* C19 as stated: an entry whose source is a directory gets a failure and
\* the directory stays where it was.
C19_DirectoryRejected ==
  BatchAnswered =>
    \A i \in 1..Len(request_files) :
       LET source == dict_get(request_files[i], "path", JNull)
       IN (source.t = "str" /\ source.s \in DOMAIN disk0 /\ disk0[source.s].kind = "dir") =>
             /\ ~mv_results[i].success
             /\ source.s \in DOMAIN disk

\* The c-th name of the sequence stem_1.ext, stem_2.ext, ... in a folder.
Numbered(dir, name, c) ==
  dir \o <<"/">> \o Path_stem(name) \o <<"_">> \o int_str(c) \o Path_suffix(name)

\* C20: the destination settled on is base/category/name when that is free,
\* and otherwise the first free name of stem_1.ext, stem_2.ext, ...; and on
\* an empty base three files named photo.jpg moved from outside into Images
\* one after the other arrive as photo.jpg, photo_1.jpg and photo_2.jpg.
C20_FirstFreeName ==
  /\ mv_pc = "moving" =>
       LET dir == base_path.s \o <<"/">> \o category_of(file_info).s
           name == Path_name(source_of(file_info).s)
           plain == dir \o <<"/">> \o name
       IN /\ dest_path \notin DOMAIN disk
          /\ \/ dest_path = plain
             \/ /\ plain \in DOMAIN disk
                /\ \E c \in 1..Cardinality(DOMAIN disk) :
                      /\ dest_path = Numbered(dir, name, c)
                      /\ \A k \in 1..(c - 1) : Numbered(dir, name, k) \in DOMAIN disk
  /\ ( /\ BatchAnswered
       /\ disk0 = Sources
       /\ Len(mv_results) >= 2
       /\ \A i \in 1..Len(mv_results) :
             /\ mv_results[i].success
             /\ Path_name(mv_results[i].source.s) = <<"p","h","o","t","o",".","j","p","g">>
             /\ mv_results[i].category.s = <<"I","m","a","g","e","s">>
             /\ ~Path_under(mv_results[i].source.s, <<"b","a","s","e">>) )
     => /\ mv_results[1].destination.s = <<"b","a","s","e","/","I","m","a","g","e","s","/","p","h","o","t","o",".","j","p","g">>
        /\ mv_results[2].destination.s = <<"b","a","s","e","/","I","m","a","g","e","s","/","p","h","o","t","o","_","1",".","j","p","g">>
        /\ Len(mv_results) = 3 => mv_results[3].destination.s = <<"b","a","s","e","/","I","m","a","g","e","s","/","p","h","o","t","o","_","2",".","j","p","g">>

C20_Witness ==
  /\ BatchAnswered
  /\ disk0 = Sources
  /\ Len(mv_results) = 3
  /\ mv_results[3].success
  /\ mv_results[3].destination.s = <<"b","a","s","e","/","I","m","a","g","e","s","/","p","h","o","t","o","_","2",".","j","p","g">>
  /\ <<"b","a","s","e","/","I","m","a","g","e","s","/","p","h","o","t","o","_","2",".","j","p","g">> \in DOMAIN disk
  /\ disk[<<"b","a","s","e","/","I","m","a","g","e","s","/","p","h","o","t","o","_","2",".","j","p","g">>] = File(3)

\* C22: in the answer to a batch a result holds a destination exactly when
\* it is a success and an error exactly when it is a failure, 'moved' is the
\* number of successes, and 'total' is the number of entries and of results.
C22_ResultShape ==
  BatchAnswered =>
    LET body == mv_response.body
    IN /\ \A i \in 1..Len(body.results) :
             /\ ("destination" \in DOMAIN body.results[i]) <=> body.results[i].success
             /\ ("error" \in DOMAIN body.results[i]) <=> ~body.results[i].success
       /\ body.moved = Cardinality({i \in 1..Len(body.results) : body.results[i].success})
       /\ body.total = Len(request_files)
       /\ body.total = Len(body.results)

\* A batch of three with two files moved and one failure.
C22_Witness ==
  /\ BatchAnswered
  /\ mv_response.body.total = 3
  /\ mv_response.body.moved = 2
  /\ \E i \in 1..3 : "error" \in DOMAIN mv_response.body.results[i]

FilePaths(d) == {p \in DOMAIN d : d[p].kind = "file"}
Successes == {i \in 1..Len(mv_results) : mv_results[i].success}
DestinationFolders ==
  {Path_join(base_path.s, category_of(request_files[i]).s) : i \in 1..Len(request_files)}

\* C32 as stated: after a batch every file that was under a destination
\* folder before it is still there unchanged, the destinations of the
\* successful results are pairwise distinct, and every moved source is gone
\* from its source path and is at its destination.
C32_DestinationsUntouched ==
  BatchAnswered =>
    /\ \A p \in FilePaths(disk0) :
          (\E dir \in DestinationFolders : Path_under(p, dir)) =>
             (p \in DOMAIN disk /\ disk[p] = disk0[p])
    /\ \A i \in Successes, j \in Successes :
          i # j => mv_results[i].destination # mv_results[j].destination
    /\ \A i \in Successes : mv_results[i].source.s \notin DOMAIN disk
    /\ Cardinality(FilePaths(disk)) = Cardinality(FilePaths(disk0))

\* C32: no move of a batch overwrites a file.  The destination settled on
\* is a path where nothing is; after the batch every file that was there
\* before it and is not (under) the source of a successful move is where it
\* was, unchanged; every file content is on the disk once, as before; and
\* two successes name one destination only when an entry between them moved
\* the first file on.
C32_NothingOverwritten ==
  /\ (mv_pc = "moving") => dest_path \notin DOMAIN disk
  /\ Cardinality(FilePaths(disk)) = Cardinality(FilePaths(disk0))
  /\ {disk[p].content : p \in FilePaths(disk)} = {disk0[p].content : p \in FilePaths(disk0)}
  /\ BatchAnswered =>
       /\ \A p \in FilePaths(disk0) :
             (\A i \in Successes :
                 p # mv_results[i].source.s /\ ~Path_under(p, mv_results[i].source.s))
             => (p \in DOMAIN disk /\ disk[p] = disk0[p])
       /\ \A i \in Successes, j \in Successes :
             (i < j /\ mv_results[i].destination = mv_results[j].destination) =>
                \E k \in Successes :
                   i < k /\ k < j /\ mv_results[k].source = mv_results[i].destination

\* A file moved into Images, moved on to Documents, and a second file moved
\* to the path the first one left.
C32_Witness ==
  /\ BatchAnswered
  /\ Successes = {1, 2, 3}
  /\ mv_results[1].destination = mv_results[3].destination
  /\ mv_results[2].source = mv_results[1].destination

\* C33 as stated: an entry whose source is already base/category/name is
\* answered with that same path as its destination, and the file stays at
\* it under its name.
AlreadyInPlace(i) ==
  mv_results[i].source.s =
    Path_join(Path_join(base_path.s, mv_results[i].category.s), Path_name(mv_results[i].source.s))

C33_InPlaceStaysPut ==
  \A i \in Successes :
     AlreadyInPlace(i) => mv_results[i].destination = mv_results[i].source

\* C34: the step of an entry that gives no source path, or whose source is
\* not on the disk, changes nothing on the disk (no folder made, no file
\* moved or renamed) and records a failure for the entry.
FailsValidation ==
  /\ mv_pc = "loop"
  /\ file_i <= Len(request_files)
  /\ \/ ~truthy(source_of(file_info))
     \/ source_of(file_info).s \notin DOMAIN disk

C34_ValidationLeavesDisk ==
  [][FailsValidation =>
       /\ disk' = disk
       /\ Len(mv_results') = Len(mv_results) + 1
       /\ ~mv_results'[Len(mv_results')].success]_vars

\* A missing source after a successful move: the folder of the failed entry
\* was not made.
C34_Witness ==
  /\ Len(mv_results) = 2
  /\ mv_results[1].success
  /\ mv_results[2] = failure(JStr(<<"i","n","9","/","g","o","n","e",".","t","x","t">>), <<"S","o","u","r","c","e"," ","f","i","l","e"," ","n","o","t"," ","f","o","u","n","d">>)
  /\ <<"b","a","s","e","/","D","o","c","u","m","e","n","t","s">> \notin DOMAIN disk

\* C35 as stated: a request with an empty file list or without base_path is
\* answered with status 400 and changes nothing on the disk.
C35_MissingFieldsGive400 ==
  (mv_pc = "responded" /\ (request_files = << >> \/ ~truthy(base_path))) =>
     (mv_response.status = 400 /\ disk = disk0)

\* The formulas below are about SpecOverlap.

\* The contents of the regular files of a disk.
Contents(d) == {d[p].content : p \in {q \in DOMAIN d : d[q].kind = "file"}}

\* Entry i of the first batch and entry j of the second were both moved,
\* from different sources, to one destination.
SameDestination(i, j) ==
  /\ mv_results[i].success
  /\ rival_results[j].success
  /\ mv_results[i].source # rival_results[j].source
  /\ mv_results[i].destination = rival_results[j].destination

\* C21: nothing keeps two batches apart.  Both may hold the same settled
\* destination before either moves, and when entries of the two batches
\* were moved from different sources to one destination, only one of the
\* two files is on the disk afterwards.
C21_RaceOverwrites ==
  /\ (mv_pc = "moving" /\ rival_pc = "moving" /\ dest_path = rival_dest) =>
        (dest_path \notin DOMAIN disk /\ ENABLED move_files_move /\ ENABLED rival_move)
  /\ \A i \in 1..Len(mv_results) : \A j \in 1..Len(rival_results) :
        SameDestination(i, j) =>
          Cardinality({disk0[mv_results[i].source.s].content,
                       disk0[rival_results[j].source.s].content} \cap Contents(disk)) = 1

\* Both batches passed the test with one destination, both moved, and a
\* file is lost.
C21_Witness ==
  /\ mv_pc = "responded"
  /\ rival_pc = "responded"
  /\ \E i \in 1..Len(mv_results) : \E j \in 1..Len(rival_results) : SameDestination(i, j)
  /\ Cardinality(Contents(disk)) < Cardinality(Contents(disk0))

\* The formulas below are about SpecWalk.

\* A component of the path of e below the scan root begins with a dot.
HasHiddenComponent(e) ==
  \E i \in 1..(Len(WalkTable[e].path) - 1) :
     WalkTable[e].path[i] = "/" /\ WalkTable[e].path[i + 1] = "."

\* e is directly in the scan root.
DirectChild(e) ==
  Cardinality({i \in 1..Len(WalkTable[e].path) : WalkTable[e].path[i] = "/"}) = 1

\* An entry above e cannot be read.
BadAbove(e) ==
  \E b \in walk_bad : b # e /\ Path_under(WalkTable[e].path, WalkTable[b].path)

Returned == {walk_files[i] : i \in 1..Len(walk_files)}

\* C23 as stated: for a root that does not exist _get_files returns the
\* empty list and does not raise, recursive or not.
C23_MissingRootGivesEmpty ==
  (walk_pc # "idle" /\ walk_root # "ok") => (walk_pc = "returned" /\ walk_files = << >>)

\* C25: no returned path has a component below the root that begins with a
\* dot; not recursive, the returned paths are regular files directly in the
\* root; and the tree of .hidden/file.txt and visible/file.txt, walked
\* recursively, gives visible/file.txt only.
C25_NothingHidden ==
  walk_pc = "returned" =>
    /\ \A e \in Returned : e \in walk_tree /\ ~HasHiddenComponent(e)
    /\ ~walk_recursive =>
          \A e \in Returned : DirectChild(e) /\ WalkTable[e].kind = "file" /\ e \notin walk_bad
    /\ (walk_recursive /\ walk_bad = {} /\ walk_tree = {2, 3, 5, 8}) => walk_files = <<8>>

C25_Witness ==
  /\ walk_pc = "returned"
  /\ walk_recursive
  /\ walk_tree = Entries
  /\ walk_files = <<4, 8, 9>>

\* C30 as stated: an entry whose stat raises is left out and every other
\* file that is not hidden and can be reached is returned: under the root
\* when recursive, directly in the root when not.
C30_BadEntrySkipped ==
  (walk_pc # "idle" /\ walk_root = "ok") =>
    /\ walk_pc = "returned"
    /\ Returned \cap walk_bad = {}
    /\ \A e \in walk_tree :
          ( /\ WalkTable[e].kind = "file"
            /\ e \notin walk_bad
            /\ ~BadAbove(e)
            /\ ~HasHiddenComponent(e)
            /\ (walk_recursive \/ DirectChild(e)) ) => e \in Returned

\* The formulas below are about SpecHealth.

\* C27 as stated: health_check returns true only when the endpoint answered
\* and the configured model is in the registry, and returns false when the
\* endpoint cannot be reached or answers with a status other than 200.
C27_HealthyMeansModelPresent ==
  hc_pc = "returned" =>
     /\ hc_result => (hc_endpoint = "ok" /\ hc_model \in hc_registry)
     /\ hc_endpoint \in {"unreachable", "status"} => ~hc_result

====
